---- MODULE Spec2Model ----
(***************************************************************************)
(* Model of the Search-Tabs popup (source/Popup/Popup.tsx, the component   *)
(* that starts at line 547): the filter flags, the query text, the four    *)
(* data slots with their asynchronous fetches, the render guards of the    *)
(* result groups, the keyboard router and the action dispatcher.           *)
(*                                                                         *)
(* Text is modelled by TLA+ strings; a character is a string of length 1.  *)
(* An optional field (id?, lastAccessed?, mutedInfo?, url?) is a sequence  *)
(* of length 0 (absent) or 1 (present).                                    *)
(***************************************************************************)
EXTENDS Integers, Sequences, FiniteSets, Bags, TLC

\* ------------------------------------------------------------- bounds

\* Most tabs the host window holds.
MaxTabs == 3
\* Largest last-accessed timestamp the host hands out.
MaxTime == 2
\* Most fetchOpenTabs calls, and most fetchRecentlyClosedTabs calls, in flight
\* at a time.
MaxInFlight == 2
\* Most fetchHistoryItems calls, and most fetchBookmarkItems calls, in flight at
\* a time (mounting starts two of each at once).
MaxSearches == 4
\* Most items of a bookmark, history or closed-tab group that are selected.
MaxItems == 3
\* Most host calls recorded in the call log.
MaxCalls == 2

\* The sessions the host keeps.
MaxSessions == 3

\* ------------------------------------------------------------- text

None == <<>>

Some(x) == <<x>>

\* JavaScript's `opt || dflt` for an optional field.
OrElse(opt, dflt) == IF opt = None THEN dflt ELSE opt[1]

Lower ==
  {"a", "b", "c", "d", "e", "f", "g", "h", "i", "j", "k", "l", "m",
   "n", "o", "p", "q", "r", "s", "t", "u", "v", "w", "x", "y", "z"}

Upper ==
  {"A", "B", "C", "D", "E", "F", "G", "H", "I", "J", "K", "L", "M",
   "N", "O", "P", "Q", "R", "S", "T", "U", "V", "W", "X", "Y", "Z"}

Digit == {"0", "1", "2", "3", "4", "5", "6", "7", "8", "9"}

CharAt(s, i) == SubSeq(s, i, i)

StartsWith(s, p) == Len(s) >= Len(p) /\ SubSeq(s, 1, Len(p)) = p

AllIn(s, class) == \A i \in 1..Len(s) : CharAt(s, i) \in class

\* [\da-z.-]
HostClass == Digit \cup Lower \cup {".", "-"}

\* [a-z.]
TldClass == Lower \cup {"."}

\* [/\w .-]
PathClass == Lower \cup Upper \cup Digit \cup {"_", "/", " ", ".", "-"}

\* The lengths of the optional group (https?:\/\/)? that match at the start.
SchemeLens(value) ==
  {0} \cup {Len(p) : p \in {q \in {"http://", "https://"} : StartsWith(value, q)}}

\* /^(https?:\/\/)?([\da-z.-]+)\.([a-z.]{2,6})([/\w .-]*)*\/?$/.test(value):
\* p is the length of the scheme group, d the place of the literal dot, k the
\* length of the [a-z.]{2,6} group; what follows is the path ("/" is in its
\* class, so the trailing \/? adds nothing).
isUrl(value) ==
  \E p \in SchemeLens(value) :
    \E d \in (p + 2)..Len(value) :
      \E k \in 2..6 :
        /\ CharAt(value, d) = "."
        /\ AllIn(SubSeq(value, p + 1, d - 1), HostClass)
        /\ d + k <= Len(value)
        /\ AllIn(SubSeq(value, d + 1, d + k), TldClass)
        /\ AllIn(SubSeq(value, d + k + 1, Len(value)), PathClass)

\* The characters encodeURIComponent leaves as they are.
Unescaped ==
  Lower \cup Upper \cup Digit \cup {"-", "_", ".", "!", "~", "*", "'", "(", ")"}

\* The code unit of an ASCII character that encodeURIComponent escapes.
AsciiCode(c) ==
  CASE c = " " -> 32
    [] c = "#" -> 35
    [] c = "%" -> 37
    [] c = "&" -> 38
    [] c = "+" -> 43
    [] c = "/" -> 47
    [] c = ":" -> 58
    [] c = "=" -> 61
    [] c = "?" -> 63
    [] c = "@" -> 64

HexDigits ==
  <<"0", "1", "2", "3", "4", "5", "6", "7", "8", "9", "A", "B", "C", "D", "E", "F">>

PercentEncode(c) ==
  "%" \o HexDigits[(AsciiCode(c) \div 16) + 1] \o HexDigits[(AsciiCode(c) % 16) + 1]

\* encodeURIComponent that escapes nothing.
encodeNothing(s) == s

RECURSIVE encodeURIComponent(_)
encodeURIComponent(s) ==
  IF s = ""
    THEN ""
    ELSE (IF CharAt(s, 1) \in Unescaped THEN CharAt(s, 1) ELSE PercentEncode(CharAt(s, 1)))
         \o encodeURIComponent(SubSeq(s, 2, Len(s)))

\* handleSearch's switch: the search URL of an engine for a query.
SearchUrl(searchEngine, value) ==
  CASE searchEngine = "google" -> "https://www.google.com/search?q=" \o encodeURIComponent(value)
    [] searchEngine = "bing" -> "https://www.bing.com/search?q=" \o encodeURIComponent(value)
    [] searchEngine = "duckduckgo" -> "https://duckduckgo.com/?q=" \o encodeURIComponent(value)
    [] OTHER -> "https://www.google.com/search?q=" \o encodeURIComponent(value)

\* UrlWithProtocol that prefixes every url.
UrlWithProtocolAlways(url) == "https://" \o url

\* handleUrlNavigation: url.match(/^https?:\/\//) ? url : `https://${url}`.
UrlWithProtocol(url) ==
  IF StartsWith(url, "http://") \/ StartsWith(url, "https://")
    THEN url
    ELSE "https://" \o url

\* ------------------------------------------------------------- URL parsing

UpperLetters == "ABCDEFGHIJKLMNOPQRSTUVWXYZ"

LowerLetters == "abcdefghijklmnopqrstuvwxyz"

LowerChar(c) ==
  IF c \in Upper
    THEN CharAt(LowerLetters, CHOOSE i \in 1..Len(UpperLetters) : CharAt(UpperLetters, i) = c)
    ELSE c

RECURSIVE ToLower(_)
ToLower(s) ==
  IF s = "" THEN "" ELSE LowerChar(CharAt(s, 1)) \o ToLower(SubSeq(s, 2, Len(s)))

\* The place of the first character of s that is in class, Len(s) + 1 when
\* there is none.
FirstIndex(s, class) ==
  IF \E i \in 1..Len(s) : CharAt(s, i) \in class
    THEN CHOOSE i \in 1..Len(s) :
           /\ CharAt(s, i) \in class
           /\ \A j \in 1..(i - 1) : CharAt(s, j) \notin class
    ELSE Len(s) + 1

\* The place of the first character of s that is not in class, Len(s) + 1
\* when there is none.
FirstOutside(s, class) ==
  IF \E i \in 1..Len(s) : CharAt(s, i) \notin class
    THEN CHOOSE i \in 1..Len(s) :
           /\ CharAt(s, i) \notin class
           /\ \A j \in 1..(i - 1) : CharAt(s, j) \in class
    ELSE Len(s) + 1

\* The place of the last c in s, 0 when there is none.
LastIndex(s, c) ==
  IF \E i \in 1..Len(s) : CharAt(s, i) = c
    THEN CHOOSE i \in 1..Len(s) :
           /\ CharAt(s, i) = c
           /\ \A j \in (i + 1)..Len(s) : CharAt(s, j) # c
    ELSE 0

\* The parser drops the spaces at both ends of its input.
RECURSIVE Trim(_)
Trim(s) ==
  IF s # "" /\ CharAt(s, 1) = " " THEN Trim(SubSeq(s, 2, Len(s)))
  ELSE IF s # "" /\ CharAt(s, Len(s)) = " " THEN Trim(SubSeq(s, 1, Len(s) - 1))
  ELSE s

RECURSIVE DecimalValue(_)
DecimalValue(digits) ==
  IF digits = ""
    THEN 0
    ELSE 10 * DecimalValue(SubSeq(digits, 1, Len(digits) - 1))
           + ((CHOOSE i \in 1..10 : CharAt("0123456789", i) = CharAt(digits, Len(digits))) - 1)

\* new URL(url) throws a TypeError, or gives a URL whose hostname is read.
Failure == [ok |-> FALSE]

Parsed(hostname) == [ok |-> TRUE, hostname |-> hostname]

SchemeClass == Lower \cup Upper \cup Digit \cup {"+", "-", "."}

SpecialSchemes == {"http", "https", "ws", "wss", "ftp"}

\* The forbidden host code points (the printable ones), and those a domain may
\* not hold beside them.
ForbiddenHost == {" ", "#", "/", ":", "<", ">", "?", "@", "[", "\\", "]", "^", "|"}

ForbiddenDomain == ForbiddenHost \cup {"%"}

\* The host of an authority: what follows the credentials, without the port.
\* A port is made of digits and is at most 65535; a port or credentials
\* without a host are a failure; a special scheme needs a host, which is a
\* domain and is lower-cased; another scheme's host is opaque.
HostOf(authority, special) ==
  LET at == LastIndex(authority, "@")
      hostport == SubSeq(authority, at + 1, Len(authority))
      colon == FirstIndex(hostport, {":"})
      host == SubSeq(hostport, 1, colon - 1)
      port == SubSeq(hostport, colon + 1, Len(hostport))
  IN  IF ~AllIn(port, Digit) \/ DecimalValue(port) > 65535 THEN Failure
      ELSE IF host = "" /\ (special \/ at > 0 \/ colon <= Len(hostport)) THEN Failure
      ELSE IF special
        THEN (IF \A i \in 1..Len(host) : CharAt(host, i) \notin ForbiddenDomain
                THEN Parsed(ToLower(host))
                ELSE Failure)
        ELSE (IF \A i \in 1..Len(host) : CharAt(host, i) \notin ForbiddenHost
                THEN Parsed(host)
                ELSE Failure)

\* new URL(url), without a base: the input needs a scheme, a letter followed
\* by letters, digits, "+", "-" or "." up to the first ":". After a special
\* scheme every "/" and "\" is skipped and the authority runs to the next
\* "/", "\", "?" or "#"; after "file:" and any other scheme an authority is
\* there only behind "//" (the host of a file URL may be empty) and the
\* hostname is empty without one. The hosts of the model are ASCII names:
\* IP literals, percent escapes, IDNA labels and drive letters are left out.
URLParse(url) ==
  LET input == Trim(url)
      colon == FirstIndex(input, {":"})
      name == SubSeq(input, 1, colon - 1)
      scheme == ToLower(name)
      rest == SubSeq(input, colon + 1, Len(input))
      afterSlashes == SubSeq(rest, FirstOutside(rest, {"/", "\\"}), Len(rest))
      afterTwo == SubSeq(rest, 3, Len(rest))
  IN  IF ~(/\ colon <= Len(input)
           /\ name # ""
           /\ CharAt(name, 1) \in Lower \cup Upper
           /\ AllIn(name, SchemeClass))
        THEN Failure
      ELSE IF scheme \in SpecialSchemes
        THEN HostOf(SubSeq(afterSlashes, 1,
                           FirstIndex(afterSlashes, {"/", "\\", "?", "#"}) - 1), TRUE)
      ELSE IF ~StartsWith(rest, "//")
        THEN Parsed("")
      ELSE IF scheme = "file"
        THEN (LET host == SubSeq(afterTwo, 1,
                                 FirstIndex(afterTwo, {"/", "\\", "?", "#"}) - 1)
              IN  IF host = "" THEN Parsed("") ELSE HostOf(host, TRUE))
      ELSE HostOf(SubSeq(afterTwo, 1, FirstIndex(afterTwo, {"/", "?", "#"}) - 1), FALSE)

\* What a call returns, or that it raised.
Returned(value) == [raised |-> FALSE, value |-> value]

Raised == [raised |-> TRUE]

\* extractDomain without its try block.
extractDomainNoCatch(url) ==
  IF StartsWith(url, "about:")
    THEN Returned(url)
    ELSE (IF URLParse(url).ok THEN Returned(URLParse(url).hostname) ELSE Raised)

\* extractDomain: the url itself for an about: url and for one new URL throws
\* on, the hostname otherwise.
extractDomain(url) ==
  IF StartsWith(url, "about:")
    THEN Returned(url)
    ELSE (IF URLParse(url).ok THEN Returned(URLParse(url).hostname) ELSE Returned(url))

\* ------------------------------------------------------------- data

\* The query texts the user types: empty, a plain word, a URL with its scheme,
\* a URL without one.
Queries == {"", "test", "https://example.com", "example.com"}

\* Query texts with a space in them, and query texts whose last label is no
\* top-level domain.
SpacedQueries == {"a b", "foo bar.com", "example.com a b"}

NoTldQueries == {"test", "example.c", "example.123"}

\* Query texts isUrl accepts, with either scheme and with none.
UrlQueries == {"http://example.com", "https://example.com/a", "example.com", "httpx.com"}

\* Urls a closed tab can have: none, a word, words, a scheme without a host,
\* web addresses with capitals, spaces around, credentials and a port, a
\* space in the host, a port that is no number, browser pages, a mail address,
\* a missing scheme, a scheme starting with a digit, a file.
DomainUrls ==
  {"", "example.com", "not a url", "http://", "https://Example.com/a b",
   " https://example.com ", "https://user@example.com:8080/x", "https://exa mple.com/",
   "https://example.com:port/", "about:blank", "chrome://extensions/", "mailto:a@b.c",
   "://x", "1http://x.com", "file:///tmp/a"}

Contains(s, sub) ==
  \E i \in 1..(Len(s) - Len(sub) + 1) : SubSeq(s, i, i + Len(sub) - 1) = sub

Range(seq) == {seq[i] : i \in 1..Len(seq)}

\* interface TabItem; the optional fields are None or Some(value).
TabItem(id, lastAccessed, active, audible, mutedInfo) ==
  [id |-> id,
   title |-> "Tab " \o ToString(OrElse(id, 0)),
   url |-> "https://site" \o ToString(OrElse(id, 0)) \o ".com/",
   lastAccessed |-> lastAccessed,
   active |-> active,
   audible |-> audible,
   mutedInfo |-> mutedInfo]

Times == {None} \cup {Some(t) : t \in 1..MaxTime}

\* The host's recently closed sessions: a closed window (no tab) and a closed
\* tab, which has no id.
InitialHostSessions ==
  <<[tab |-> None],
    [tab |-> Some([id |-> None, title |-> "Closed", url |-> "https://closed.org/",
                   lastAccessed |-> Some(1), active |-> FALSE, audible |-> FALSE,
                   mutedInfo |-> None])]>>

\* The host's browsing history.
HostHistory ==
  <<[id |-> "h1", url |-> Some("https://example.com/"), title |-> Some("Example")],
    [id |-> "h2", url |-> Some("https://test.org/"), title |-> Some("a test page")]>>

\* The host's bookmarks; a folder has no url.
HostBookmarks ==
  <<[id |-> "b1", url |-> None, title |-> "test folder"],
    [id |-> "b2", url |-> Some("https://example.com/docs"), title |-> "Docs"],
    [id |-> "b3", url |-> Some("https://test.org/"), title |-> "Test site"]>>

\* browser.history.search({text}): the entries whose url or title holds the
\* text; every entry for the empty text.
HistorySearch(text) ==
  SelectSeq(HostHistory,
            LAMBDA item : \/ text = ""
                          \/ Contains(OrElse(item.url, ""), text)
                          \/ Contains(OrElse(item.title, ""), text))

\* browser.bookmarks.search({query}): the nodes whose url or title holds the
\* query.
BookmarkSearch(query) ==
  SelectSeq(HostBookmarks,
            LAMBDA item : \/ Contains(OrElse(item.url, ""), query)
                          \/ Contains(item.title, query))

\* browser.bookmarks.getRecent(10): the most recently added nodes.
BookmarkRecent == HostBookmarks

\* ------------------------------------------------------------- state

VARIABLES
  mounted,            \* the component is mounted: its effects have run
  windowOpen,         \* window.close() has not been called
  listeners,          \* the handlers registered on the tab events (a bag of events)
  filters,            \* useState filters
  searchValue,        \* useState searchValue
  openTabs,           \* useState openTabs
  recentlyClosedTabs, \* useState recentlyClosedTabs
  historyItems,       \* useState historyItems
  bookmarkItems,      \* useState bookmarkItems
  sessionsError,      \* useState sessionsError
  inflightOpen,       \* fetchOpenTabs calls awaiting browser.tabs.query
  inflightClosed,     \* fetchRecentlyClosedTabs calls awaiting getRecentlyClosed
  inflightHistory,    \* fetchHistoryItems calls awaiting the host, by query (a bag)
  inflightBookmarks,  \* fetchBookmarkItems calls awaiting the host, by the
                      \* searchValue of their closure (a bag)
  tasks,              \* action handlers suspended at an await of a host call
  hostCalls,          \* the host's mutating calls received, in order
  hostTabs,           \* the tabs of the host's current window, in tab order
  hostSessions,       \* the host's recently closed sessions
  sessionsAvailable,  \* browser.sessions is defined
  lastEvent,          \* the user or host event handled last
  open,               \* SubCommand's useState open: the submenu is open
  overflow,           \* style.overflow of the main result list
  overflowEffect      \* the effect on [open, listRef] has yet to run

componentVars == <<mounted, windowOpen, listeners>>

subVars == <<open, overflow, overflowEffect>>

slotVars == <<openTabs, recentlyClosedTabs, historyItems, bookmarkItems, sessionsError>>

inflightVars == <<inflightOpen, inflightClosed, inflightHistory, inflightBookmarks>>

callVars == <<tasks, hostCalls>>

hostVars == <<hostTabs, hostSessions, sessionsAvailable>>

vars ==
  <<componentVars, filters, searchValue, slotVars, inflightVars, callVars, hostVars,
    lastEvent, subVars>>

AllOnly == [all |-> TRUE, tab |-> FALSE, history |-> FALSE, bookmark |-> FALSE]

FilterNames == {"all", "tab", "history", "bookmark"}

TabEvents == {"onRemoved", "onCreated", "onUpdated"}

NoSessionsError ==
  "Cannot access recently closed tabs. Please ensure necessary permissions are granted."

FetchSessionsError == "Error fetching recently closed tabs"

\* The state of a component instance before its effects run: the useState
\* initial values. The host window holds no tab yet (the host gives it tabs by
\* HostTabCreated), and the sessions API is there or not.
Init ==
  /\ mounted = FALSE
  /\ windowOpen = TRUE
  /\ listeners = EmptyBag
  /\ filters = AllOnly
  /\ searchValue = ""
  /\ openTabs = <<>>
  /\ recentlyClosedTabs = <<>>
  /\ historyItems = <<>>
  /\ bookmarkItems = <<>>
  /\ sessionsError = ""
  /\ inflightOpen = 0
  /\ inflightClosed = 0
  /\ inflightHistory = EmptyBag
  /\ inflightBookmarks = EmptyBag
  /\ tasks = <<>>
  /\ hostCalls = <<>>
  /\ hostTabs = <<>>
  /\ hostSessions = InitialHostSessions
  /\ sessionsAvailable \in BOOLEAN
  /\ lastEvent = [kind |-> "none"]
  /\ open = FALSE
  /\ overflow = ""
  /\ overflowEffect = FALSE

\* ------------------------------------------------------------- filters

\* newFilters without "If no filters selected, default to all".
newFiltersNoDefault(cur, filter) ==
  IF filter = "all"
    THEN [all |-> TRUE, tab |-> FALSE, history |-> FALSE, bookmark |-> FALSE]
    ELSE [cur EXCEPT !.all = FALSE, ![filter] = ~cur[filter]]

\* newFilters where a specific toggle leaves the "all" flag as it was.
newFiltersKeepAll(cur, filter) ==
  IF filter = "all"
    THEN [all |-> TRUE, tab |-> FALSE, history |-> FALSE, bookmark |-> FALSE]
    ELSE LET toggled == [cur EXCEPT ![filter] = ~cur[filter]]
         IN  IF ~toggled.tab /\ ~toggled.history /\ ~toggled.bookmark
               THEN [toggled EXCEPT !.all = TRUE]
               ELSE toggled

\* newFilters where "all" is switched on beside the specific flags.
newFiltersAllBeside(cur, filter) ==
  IF filter = "all"
    THEN [cur EXCEPT !.all = TRUE]
    ELSE LET toggled == [cur EXCEPT !.all = FALSE, ![filter] = ~cur[filter]]
         IN  IF ~toggled.tab /\ ~toggled.history /\ ~toggled.bookmark
               THEN [toggled EXCEPT !.all = TRUE]
               ELSE toggled

\* newFilters that clears the other specific flags.
newFiltersExclusive(cur, filter) ==
  IF filter = "all" \/ cur[filter]
    THEN [all |-> TRUE, tab |-> FALSE, history |-> FALSE, bookmark |-> FALSE]
    ELSE [all |-> FALSE, tab |-> filter = "tab", history |-> filter = "history",
          bookmark |-> filter = "bookmark"]

\* The value handleFilterClick hands to setFilters.
newFilters(cur, filter) ==
  IF filter = "all"
    THEN [all |-> TRUE, tab |-> FALSE, history |-> FALSE, bookmark |-> FALSE]
    ELSE LET toggled == [cur EXCEPT !.all = FALSE, ![filter] = ~cur[filter]]
         IN  IF ~toggled.tab /\ ~toggled.history /\ ~toggled.bookmark
               THEN [toggled EXCEPT !.all = TRUE]
               ELSE toggled

handleFilterClick(filter) == filters' = newFilters(filters, filter)

\* A click on one of the four filter buttons.
FilterButtonClick(filter) ==
  /\ mounted /\ windowOpen
  /\ handleFilterClick(filter)
  /\ lastEvent' = [kind |-> "click", filter |-> filter]
  /\ UNCHANGED <<componentVars, subVars, searchValue, slotVars, inflightVars, callVars, hostVars>>

\* ------------------------------------------------------------- fetches

BagAdd(bag, x) == bag (+) SetToBag({x})

BagRemove(bag, x) == bag (-) SetToBag({x})

\* tab.mutedInfo?.muted
Muted(tab) == IF tab.mutedInfo = None THEN FALSE ELSE tab.mutedInfo[1].muted

\* (b.lastAccessed || 0) - (a.lastAccessed || 0) < 0: a sorts before b.
SortKey(tab) == OrElse(tab.lastAccessed, 0)

\* Array.prototype.sort with the comparator above is a stable sort into
\* descending key order: each element goes behind the elements before it whose
\* key is at least its own.
RECURSIVE InsertByLastAccessed(_, _)
InsertByLastAccessed(tab, sorted) ==
  IF sorted = <<>>
    THEN <<tab>>
    ELSE IF SortKey(Head(sorted)) >= SortKey(tab)
           THEN <<Head(sorted)>> \o InsertByLastAccessed(tab, Tail(sorted))
           ELSE <<tab>> \o sorted

RECURSIVE SortByLastAccessed(_)
SortByLastAccessed(tabs) ==
  IF tabs = <<>>
    THEN <<>>
    ELSE InsertByLastAccessed(tabs[Len(tabs)],
                              SortByLastAccessed(SubSeq(tabs, 1, Len(tabs) - 1)))

\* sortedTabs without the sort: the answer in the host's order.
sortedTabsHostOrder(tabs) == tabs

\* fetchOpenTabs after its await: the sorted answer of browser.tabs.query.
sortedTabs(tabs) == SortByLastAccessed(tabs)

\* fetchRecentlyClosedTabs after its await: the tabs of the sessions, sorted.
closedTabs(sessions) ==
  LET withTab == SelectSeq(sessions, LAMBDA session : session.tab # None)
  IN  SortByLastAccessed([i \in 1..Len(withTab) |-> withTab[i].tab[1]])

\* fetchBookmarkItems that keeps the entries without a url.
filteredItemsKeepAll(query) ==
  IF query # "" THEN BookmarkSearch(query) ELSE BookmarkRecent

\* fetchBookmarkItems after its await: the host's answer without the entries
\* that have no url.
filteredItems(query) ==
  SelectSeq(IF query # "" THEN BookmarkSearch(query) ELSE BookmarkRecent,
            LAMBDA item : item.url # None /\ item.url # Some(""))

\* fetchOpenTabs up to its await.
StartFetchOpenTabs == inflightOpen' = inflightOpen + 1

\* fetchRecentlyClosedTabs without the test of browser.sessions.
StartFetchRecentlyClosedTabsUnchecked ==
  /\ inflightClosed' = inflightClosed + 1
  /\ UNCHANGED sessionsError

\* fetchRecentlyClosedTabs up to its await, or to its early return when the
\* sessions API is missing.
StartFetchRecentlyClosedTabs ==
  IF sessionsAvailable
    THEN /\ inflightClosed' = inflightClosed + 1
         /\ UNCHANGED sessionsError
    ELSE /\ sessionsError' = NoSessionsError
         /\ UNCHANGED inflightClosed

\* The effects that run when the component mounts: the mount effect (four
\* fetches, three listeners), the first run of the searchValue effect (a
\* bookmark and a history fetch) and the first run of SubCommand's effect on
\* [open, listRef].
Mount ==
  /\ ~mounted /\ windowOpen
  /\ mounted' = TRUE
  /\ StartFetchOpenTabs
  /\ StartFetchRecentlyClosedTabs
  /\ inflightHistory' = BagAdd(BagAdd(inflightHistory, ""), searchValue)
  /\ inflightBookmarks' = BagAdd(BagAdd(inflightBookmarks, searchValue), searchValue)
  /\ listeners' = listeners (+) SetToBag(TabEvents)
  /\ lastEvent' = [kind |-> "mount"]
  /\ overflow' = IF open THEN "hidden" ELSE ""
  /\ UNCHANGED <<open, overflowEffect>>
  /\ UNCHANGED <<windowOpen, filters, searchValue, openTabs, recentlyClosedTabs,
                 historyItems, bookmarkItems, callVars, hostVars>>

\* The cleanup of the mount effect that leaves the onUpdated listener.
UnmountLeaking ==
  /\ mounted
  /\ mounted' = FALSE
  /\ listeners' = listeners (-) SetToBag({"onRemoved", "onCreated"})
  /\ filters' = AllOnly
  /\ searchValue' = ""
  /\ openTabs' = <<>>
  /\ recentlyClosedTabs' = <<>>
  /\ historyItems' = <<>>
  /\ bookmarkItems' = <<>>
  /\ sessionsError' = ""
  /\ inflightOpen' = 0
  /\ inflightClosed' = 0
  /\ inflightHistory' = EmptyBag
  /\ inflightBookmarks' = EmptyBag
  /\ lastEvent' = [kind |-> "unmount"]
  /\ open' = FALSE
  /\ overflow' = ""
  /\ overflowEffect' = FALSE
  /\ UNCHANGED <<windowOpen, callVars, hostVars>>

\* The component unmounts: the cleanup of the mount effect removes the handler
\* from the three events. The state of the instance goes with it (the next
\* instance starts from the useState initial values), and what its fetches
\* still answer sets the state of no instance.
Unmount ==
  /\ mounted
  /\ mounted' = FALSE
  /\ listeners' = listeners (-) SetToBag(TabEvents)
  /\ filters' = AllOnly
  /\ searchValue' = ""
  /\ openTabs' = <<>>
  /\ recentlyClosedTabs' = <<>>
  /\ historyItems' = <<>>
  /\ bookmarkItems' = <<>>
  /\ sessionsError' = ""
  /\ inflightOpen' = 0
  /\ inflightClosed' = 0
  /\ inflightHistory' = EmptyBag
  /\ inflightBookmarks' = EmptyBag
  /\ lastEvent' = [kind |-> "unmount"]
  /\ open' = FALSE
  /\ overflow' = ""
  /\ overflowEffect' = FALSE
  /\ UNCHANGED <<windowOpen, callVars, hostVars>>

\* handleTabChange that fetches the closed tabs only.
handleTabChangeClosedOnly ==
  /\ UNCHANGED inflightOpen
  /\ StartFetchRecentlyClosedTabs

\* handleTabChange: both tab fetches are started.
handleTabChange ==
  /\ StartFetchOpenTabs
  /\ StartFetchRecentlyClosedTabs

\* handleTabChange, called by the host for a tab event it is registered on.
OnTabEvent(event) ==
  /\ mounted /\ windowOpen
  /\ BagIn(event, listeners)
  /\ inflightOpen < MaxInFlight
  /\ inflightClosed < MaxInFlight
  /\ handleTabChange
  /\ lastEvent' = [kind |-> "tabEvent"]
  /\ UNCHANGED <<componentVars, subVars, filters, searchValue, openTabs, recentlyClosedTabs,
                 historyItems, bookmarkItems, inflightHistory, inflightBookmarks,
                 callVars, hostVars>>

\* browser.tabs.query resolves: fetchOpenTabs sorts and stores the answer, the
\* tabs the host window holds when it answers.
FetchOpenTabsResolve ==
  /\ windowOpen
  /\ inflightOpen > 0
  /\ inflightOpen' = inflightOpen - 1
  /\ openTabs' = sortedTabs(hostTabs)
  /\ UNCHANGED <<componentVars, subVars, filters, searchValue, recentlyClosedTabs, historyItems,
                 bookmarkItems, sessionsError, inflightClosed, inflightHistory,
                 inflightBookmarks, callVars, hostVars, lastEvent>>

\* browser.tabs.query rejects: fetchOpenTabs has no try/catch, the rejection
\* leaves it and no state is set.
FetchOpenTabsReject ==
  /\ windowOpen
  /\ inflightOpen > 0
  /\ inflightOpen' = inflightOpen - 1
  /\ UNCHANGED <<componentVars, subVars, filters, searchValue, slotVars, inflightClosed,
                 inflightHistory, inflightBookmarks, callVars, hostVars, lastEvent>>

\* fetchRecentlyClosedTabs that leaves sessionsError when it succeeds.
FetchRecentlyClosedTabsResolveSticky ==
  /\ windowOpen
  /\ inflightClosed > 0
  /\ inflightClosed' = inflightClosed - 1
  /\ recentlyClosedTabs' = closedTabs(hostSessions)
  /\ UNCHANGED <<componentVars, subVars, filters, searchValue, openTabs, historyItems,
                 bookmarkItems, sessionsError, inflightOpen, inflightHistory,
                 inflightBookmarks, callVars, hostVars, lastEvent>>

\* browser.sessions.getRecentlyClosed resolves.
FetchRecentlyClosedTabsResolve ==
  /\ windowOpen
  /\ inflightClosed > 0
  /\ inflightClosed' = inflightClosed - 1
  /\ recentlyClosedTabs' = closedTabs(hostSessions)
  /\ sessionsError' = ""
  /\ UNCHANGED <<componentVars, subVars, filters, searchValue, openTabs, historyItems,
                 bookmarkItems, inflightOpen, inflightHistory, inflightBookmarks,
                 callVars, hostVars, lastEvent>>

\* browser.sessions.getRecentlyClosed rejects: the catch block.
FetchRecentlyClosedTabsReject ==
  /\ windowOpen
  /\ inflightClosed > 0
  /\ inflightClosed' = inflightClosed - 1
  /\ sessionsError' = FetchSessionsError
  /\ recentlyClosedTabs' = <<>>
  /\ UNCHANGED <<componentVars, subVars, filters, searchValue, openTabs, historyItems,
                 bookmarkItems, inflightOpen, inflightHistory, inflightBookmarks,
                 callVars, hostVars, lastEvent>>

\* fetchHistoryItems that empties the bookmark slot when it stores its answer.
FetchHistoryItemsResolveClearing(query) ==
  /\ windowOpen
  /\ BagIn(query, inflightHistory)
  /\ inflightHistory' = BagRemove(inflightHistory, query)
  /\ historyItems' = HistorySearch(query)
  /\ bookmarkItems' = <<>>
  /\ UNCHANGED <<componentVars, subVars, filters, searchValue, openTabs, recentlyClosedTabs,
                 sessionsError, inflightOpen, inflightClosed,
                 inflightBookmarks, callVars, hostVars, lastEvent>>

\* browser.history.search resolves for a fetch started with `query`.
FetchHistoryItemsResolve(query) ==
  /\ windowOpen
  /\ BagIn(query, inflightHistory)
  /\ inflightHistory' = BagRemove(inflightHistory, query)
  /\ historyItems' = HistorySearch(query)
  /\ UNCHANGED <<componentVars, subVars, filters, searchValue, openTabs, recentlyClosedTabs,
                 bookmarkItems, sessionsError, inflightOpen, inflightClosed,
                 inflightBookmarks, callVars, hostVars, lastEvent>>

\* browser.history.search rejects: the catch block.
FetchHistoryItemsReject(query) ==
  /\ windowOpen
  /\ BagIn(query, inflightHistory)
  /\ inflightHistory' = BagRemove(inflightHistory, query)
  /\ historyItems' = <<>>
  /\ UNCHANGED <<componentVars, subVars, filters, searchValue, openTabs, recentlyClosedTabs,
                 bookmarkItems, sessionsError, inflightOpen, inflightClosed,
                 inflightBookmarks, callVars, hostVars, lastEvent>>

\* browser.bookmarks.search or getRecent resolves for a fetch whose closure
\* holds searchValue = query.
FetchBookmarkItemsResolve(query) ==
  /\ windowOpen
  /\ BagIn(query, inflightBookmarks)
  /\ inflightBookmarks' = BagRemove(inflightBookmarks, query)
  /\ bookmarkItems' = filteredItems(query)
  /\ UNCHANGED <<componentVars, subVars, filters, searchValue, openTabs, recentlyClosedTabs,
                 historyItems, sessionsError, inflightOpen, inflightClosed,
                 inflightHistory, callVars, hostVars, lastEvent>>

\* The bookmark call rejects: the catch block.
FetchBookmarkItemsReject(query) ==
  /\ windowOpen
  /\ BagIn(query, inflightBookmarks)
  /\ inflightBookmarks' = BagRemove(inflightBookmarks, query)
  /\ bookmarkItems' = <<>>
  /\ UNCHANGED <<componentVars, subVars, filters, searchValue, openTabs, recentlyClosedTabs,
                 historyItems, sessionsError, inflightOpen, inflightClosed,
                 inflightHistory, callVars, hostVars, lastEvent>>

\* InputChange whose effect gives up the fetches still in flight.
InputChangeCancelling(value) ==
  /\ mounted /\ windowOpen
  /\ value # searchValue
  /\ BagCardinality(inflightHistory) < MaxSearches
  /\ BagCardinality(inflightBookmarks) < MaxSearches
  /\ searchValue' = value
  /\ inflightBookmarks' = SetToBag({value})
  /\ inflightHistory' = SetToBag({value})
  /\ lastEvent' = [kind |-> "input", value |-> value]
  /\ UNCHANGED <<componentVars, subVars, filters, slotVars, inflightOpen, inflightClosed,
                 callVars, hostVars>>

\* onValueChange of the main input, then the searchValue effect of the render
\* that follows: a bookmark fetch and a history fetch for the new text.
InputChange(value) ==
  /\ mounted /\ windowOpen
  /\ value # searchValue
  /\ BagCardinality(inflightHistory) < MaxSearches
  /\ BagCardinality(inflightBookmarks) < MaxSearches
  /\ searchValue' = value
  /\ inflightBookmarks' = BagAdd(inflightBookmarks, value)
  /\ inflightHistory' = BagAdd(inflightHistory, value)
  /\ lastEvent' = [kind |-> "input", value |-> value]
  /\ UNCHANGED <<componentVars, subVars, filters, slotVars, inflightOpen, inflightClosed,
                 callVars, hostVars>>

\* ------------------------------------------------------------- actions

\* browser.tabs.create({url}) as the host receives it.
CreateCall(url) == [api |-> "tabs.create", url |-> url]

\* handleSearch without the test of searchValue.
handleSearchAlways(searchEngine) ==
  /\ Len(hostCalls) < MaxCalls
  /\ hostCalls' = Append(hostCalls, CreateCall(SearchUrl(searchEngine, searchValue)))
  /\ tasks' = Append(tasks, [op |-> "handleSearch"])

\* handleSearch up to its await: nothing for an empty query, else tabs.create
\* at the engine's search URL.
handleSearch(searchEngine) ==
  IF searchValue # ""
    THEN /\ Len(hostCalls) < MaxCalls
         /\ hostCalls' = Append(hostCalls, CreateCall(SearchUrl(searchEngine, searchValue)))
         /\ tasks' = Append(tasks, [op |-> "handleSearch"])
    ELSE UNCHANGED callVars

\* handleUrlNavigation up to its await.
handleUrlNavigation(url) ==
  /\ Len(hostCalls) < MaxCalls
  /\ hostCalls' = Append(hostCalls, CreateCall(UrlWithProtocol(url)))
  /\ tasks' = Append(tasks, [op |-> "handleUrlNavigation"])

RemoveAt(seq, i) == SubSeq(seq, 1, i - 1) \o SubSeq(seq, i + 1, Len(seq))

\* The calls of the action dispatcher as the host receives them.
UpdateActiveCall(tabId) == [api |-> "tabs.update", tabId |-> tabId, active |-> TRUE]

UpdateMutedCall(tabId, muted) == [api |-> "tabs.update", tabId |-> tabId, muted |-> muted]

GetCurrentCall == [api |-> "windows.getCurrent"]

FocusCall(windowId) == [api |-> "windows.update", windowId |-> windowId, focused |-> TRUE]

RemoveCall(tabId) == [api |-> "tabs.remove", tabId |-> tabId]

\* What browser.windows.getCurrent() answers: the window of the popup, whose
\* tabs hostTabs holds.
HostWindow == [id |-> Some(1)]

\* The host's tabs after tab tabId is made the active one.
Activated(tabs, tabId) ==
  [i \in 1..Len(tabs) |-> [tabs[i] EXCEPT !.active = (tabs[i].id = Some(tabId))]]

\* The host's tabs after tab tabId is muted or unmuted.
MutedSet(tabs, tabId, muted) ==
  [i \in 1..Len(tabs) |->
     IF tabs[i].id = Some(tabId)
       THEN [tabs[i] EXCEPT !.mutedInfo = Some([muted |-> muted])]
       ELSE tabs[i]]

HostHasTab(tabId) == \E i \in 1..Len(hostTabs) : hostTabs[i].id = Some(tabId)

\* switchToTab up to its first await.
switchToTab(tabId) ==
  /\ Len(hostCalls) < MaxCalls
  /\ hostCalls' = Append(hostCalls, UpdateActiveCall(tabId))
  /\ tasks' = Append(tasks, [op |-> "switchToTab", pc |-> "update", tabId |-> tabId])

\* switchToTab that closes the popup once the tab is activated.
switchToTabNextCloseEarly(pc) ==
  [pc |-> "done", call |-> None, close |-> TRUE]

\* switchToTab from one await to the next: the await that resolved, then the
\* call made next and whether window.close() is reached.
switchToTabNext(pc) ==
  CASE pc = "update" -> [pc |-> "getCurrent", call |-> Some(GetCurrentCall), close |-> FALSE]
    [] pc = "getCurrent" ->
         [pc |-> "focus", call |-> Some(FocusCall(HostWindow.id[1])), close |-> FALSE]
    [] pc = "focus" -> [pc |-> "done", call |-> None, close |-> TRUE]

\* reopenTab that asks for the tab twice.
reopenTabTwice(url) ==
  /\ Len(hostCalls) < MaxCalls
  /\ hostCalls' = hostCalls \o <<CreateCall(url), CreateCall(url)>>
  /\ tasks' = Append(tasks, [op |-> "reopenTab"])

\* reopenTab up to its await.
reopenTab(url) ==
  /\ Len(hostCalls) < MaxCalls
  /\ hostCalls' = Append(hostCalls, CreateCall(url))
  /\ tasks' = Append(tasks, [op |-> "reopenTab"])

\* toggleMute that passes the flag on as it is.
toggleMuteSame(tabId, muted) ==
  /\ Len(hostCalls) < MaxCalls
  /\ hostCalls' = Append(hostCalls, UpdateMutedCall(tabId, muted))
  /\ tasks' = Append(tasks, [op |-> "toggleMute", tabId |-> tabId, muted |-> muted])

\* toggleMute up to its await.
toggleMute(tabId, muted) ==
  /\ Len(hostCalls) < MaxCalls
  /\ hostCalls' = Append(hostCalls, UpdateMutedCall(tabId, ~muted))
  /\ tasks' = Append(tasks, [op |-> "toggleMute", tabId |-> tabId, muted |-> ~muted])

\* The awaited browser.tabs.create resolves: handleSearch, handleUrlNavigation
\* and reopenTab go on to window.close().
CreateResolve(i) ==
  /\ tasks[i].op \in {"handleSearch", "handleUrlNavigation", "reopenTab"}
  /\ tasks' = RemoveAt(tasks, i)
  /\ windowOpen' = FALSE
  /\ UNCHANGED <<hostCalls, hostTabs, inflightOpen>>

\* An await of switchToTab resolves: the host has made the tab active, or
\* answered the window, or focused it.
SwitchResolve(i) ==
  /\ tasks[i].op = "switchToTab"
  /\ tasks[i].pc = "update" => HostHasTab(tasks[i].tabId)
  /\ LET next == switchToTabNext(tasks[i].pc)
     IN  /\ tasks' = IF next.close
                       THEN RemoveAt(tasks, i)
                       ELSE [tasks EXCEPT ![i].pc = next.pc]
         /\ hostCalls' = IF next.call = None THEN hostCalls ELSE Append(hostCalls, next.call[1])
         /\ windowOpen' = ~next.close
  /\ hostTabs' = IF tasks[i].pc = "update" THEN Activated(hostTabs, tasks[i].tabId) ELSE hostTabs
  /\ UNCHANGED inflightOpen

\* The awaited browser.tabs.update of toggleMute resolves: the host has set
\* the flag, and toggleMute calls fetchOpenTabs.
MuteResolve(i) ==
  /\ tasks[i].op = "toggleMute"
  /\ HostHasTab(tasks[i].tabId)
  /\ inflightOpen < MaxInFlight
  /\ tasks' = RemoveAt(tasks, i)
  /\ hostTabs' = MutedSet(hostTabs, tasks[i].tabId, tasks[i].muted)
  /\ StartFetchOpenTabs
  /\ UNCHANGED <<hostCalls, windowOpen>>

\* The host call a suspended handler awaits resolves.
TaskResolve(i) ==
  /\ windowOpen
  /\ i \in 1..Len(tasks)
  /\ CreateResolve(i) \/ SwitchResolve(i) \/ MuteResolve(i)
  /\ UNCHANGED <<mounted, listeners, filters, searchValue, slotVars, inflightClosed,
                 inflightHistory, inflightBookmarks, hostSessions, sessionsAvailable,
                 lastEvent, subVars>>

\* A handler that closes the popup when the host call it awaits rejects.
TaskRejectCloses(i) ==
  /\ windowOpen
  /\ i \in 1..Len(tasks)
  /\ tasks' = RemoveAt(tasks, i)
  /\ windowOpen' = FALSE
  /\ UNCHANGED <<mounted, listeners, subVars, filters, searchValue, slotVars, inflightVars,
                 hostCalls, hostVars, lastEvent>>

\* The awaited host call rejects: the handler ends there, nothing catches it.
TaskReject(i) ==
  /\ windowOpen
  /\ i \in 1..Len(tasks)
  /\ tasks' = RemoveAt(tasks, i)
  /\ UNCHANGED <<componentVars, subVars, filters, searchValue, slotVars, inflightVars,
                 hostCalls, hostVars, lastEvent>>

Keys == {"Enter", "1", "2", "3", "4", "a"}

\* The switch of handleKeyDown.
FilterOfKey == [k \in {"1", "2", "3", "4"} |->
  CASE k = "1" -> "all" [] k = "2" -> "tab" [] k = "3" -> "history" [] k = "4" -> "bookmark"]

\* What lastEvent keeps of a keydown: the key, the modifiers handleKeyDown
\* reads, and what the handler did to the event.
KeyEvent(key, ctrlKey, metaKey, shiftKey, defaultPrevented, propagationStopped) ==
  [kind |-> "keydown", key |-> key, ctrlOrMeta |-> (ctrlKey \/ metaKey),
   shiftKey |-> shiftKey,
   defaultPrevented |-> defaultPrevented, propagationStopped |-> propagationStopped]

\* handleKeyDown that does not read the Shift key at Enter.
handleKeyDownNoShift(key, ctrlKey, metaKey, shiftKey) ==
  IF key = "Enter" /\ (metaKey \/ ctrlKey)
    THEN /\ handleSearch("google")
         /\ UNCHANGED filters
         /\ lastEvent' = KeyEvent(key, ctrlKey, metaKey, shiftKey, TRUE, FALSE)
    ELSE IF (ctrlKey \/ metaKey) /\ key \in DOMAIN FilterOfKey
           THEN /\ handleFilterClick(FilterOfKey[key])
                /\ UNCHANGED callVars
                /\ lastEvent' = KeyEvent(key, ctrlKey, metaKey, shiftKey, TRUE, TRUE)
           ELSE /\ UNCHANGED <<filters, callVars>>
                /\ lastEvent' = KeyEvent(key, ctrlKey, metaKey, shiftKey, FALSE, FALSE)

\* handleKeyDown: a keydown in the main input.
handleKeyDown(key, ctrlKey, metaKey, shiftKey) ==
  IF key = "Enter" /\ (metaKey \/ ctrlKey)
    THEN /\ IF isUrl(searchValue) /\ shiftKey
              THEN handleUrlNavigation(searchValue)
              ELSE handleSearch("google")
         /\ UNCHANGED filters
         /\ lastEvent' = KeyEvent(key, ctrlKey, metaKey, shiftKey, TRUE, FALSE)
    ELSE IF (ctrlKey \/ metaKey) /\ key \in DOMAIN FilterOfKey
           THEN /\ handleFilterClick(FilterOfKey[key])
                /\ UNCHANGED callVars
                /\ lastEvent' = KeyEvent(key, ctrlKey, metaKey, shiftKey, TRUE, TRUE)
           ELSE /\ UNCHANGED <<filters, callVars>>
                /\ lastEvent' = KeyEvent(key, ctrlKey, metaKey, shiftKey, FALSE, FALSE)

KeyDown(key, ctrlKey, metaKey, shiftKey) ==
  /\ mounted /\ windowOpen
  /\ handleKeyDown(key, ctrlKey, metaKey, shiftKey)
  /\ UNCHANGED <<componentVars, subVars, searchValue, slotVars, inflightVars, hostVars>>

\* The ids the host has given out: those of its tabs and of the tabs it was
\* asked to remove.
UsedTabIds ==
  {hostTabs[i].id[1] : i \in 1..Len(hostTabs)}
    \cup {hostCalls[k].tabId : k \in {j \in 1..Len(hostCalls) : hostCalls[j].api = "tabs.remove"}}

NextTabId == 1 + (CHOOSE m \in UsedTabIds \cup {0} : \A x \in UsedTabIds : m >= x)

\* The host window gets a tab: it has the next id, the window's first tab is
\* the active one, the even tabs carry no mutedInfo.
HostTabCreated(lastAccessed, audible, mutedInfo) ==
  /\ mounted /\ windowOpen
  /\ Len(hostTabs) < MaxTabs
  /\ hostTabs' = Append(hostTabs,
                        TabItem(Some(NextTabId), lastAccessed, hostTabs = <<>>,
                                audible, mutedInfo))
  /\ UNCHANGED <<componentVars, subVars, filters, searchValue, slotVars, inflightVars, callVars,
                 hostSessions, sessionsAvailable, lastEvent>>

\* A tab the host has closed, as a session holds it.
ClosedTab(url) ==
  [id |-> None, title |-> "Closed", url |-> url, lastAccessed |-> Some(MaxTime),
   active |-> FALSE, audible |-> FALSE, mutedInfo |-> None]

\* The host records a tab closed in some window as its most recent session.
HostSessionClosed(url) ==
  /\ mounted /\ windowOpen
  /\ Len(hostSessions) < MaxSessions
  /\ hostSessions' = <<[tab |-> Some(ClosedTab(url))]>> \o hostSessions
  /\ UNCHANGED <<componentVars, subVars, filters, searchValue, slotVars, inflightVars, callVars,
                 hostTabs, sessionsAvailable, lastEvent>>

\* The host's tab i starts or stops playing sound.
HostAudibleChange(i) ==
  /\ mounted /\ windowOpen
  /\ i \in 1..Len(hostTabs)
  /\ hostTabs' = [hostTabs EXCEPT ![i].audible = ~@]
  /\ UNCHANGED <<componentVars, subVars, filters, searchValue, slotVars, inflightVars, callVars,
                 hostSessions, sessionsAvailable, lastEvent>>

\* The user mutes or unmutes the host's tab i from the tab strip.
HostMutedChange(i) ==
  /\ mounted /\ windowOpen
  /\ i \in 1..Len(hostTabs)
  /\ hostTabs' = [hostTabs EXCEPT ![i].mutedInfo = Some([muted |-> ~Muted(hostTabs[i])])]
  /\ UNCHANGED <<componentVars, subVars, filters, searchValue, slotVars, inflightVars, callVars,
                 hostSessions, sessionsAvailable, lastEvent>>

\* ------------------------------------------------------------- render

\* mediaTabs that looks at the sound only.
mediaTabsAudibleOnly == SelectSeq(openTabs, LAMBDA tab : tab.audible)

mediaTabs == SelectSeq(openTabs, LAMBDA tab : tab.audible \/ Muted(tab))

\* activeTabs that keeps the active tab.
activeTabsWithActive == SelectSeq(openTabs, LAMBDA tab : ~tab.audible /\ ~Muted(tab))

activeTabs == SelectSeq(openTabs, LAMBDA tab : ~tab.audible /\ ~Muted(tab) /\ ~tab.active)

\* {searchValue && (<Command.Group> ...
QuickActionsShown == searchValue # ""

\* The "Search google" item of the Quick Actions group.
SearchGoogleShown == QuickActionsShown

\* NavigateToShown without the isUrl test.
NavigateToShownAlways == QuickActionsShown

\* {isUrl(searchValue) && ( ... the "Navigate to" item of the group.
NavigateToShown == QuickActionsShown /\ isUrl(searchValue)

MediaTabsShown == (filters.all \/ filters.tab) /\ Len(mediaTabs) > 0

OpenedTabsShown == filters.all \/ filters.tab

RecentlyClosedShown == (filters.all \/ filters.tab) /\ sessionsError = ""

BookmarksShown == (filters.all \/ filters.bookmark) /\ Len(bookmarkItems) > 0

\* HistoryShown without the filter test.
HistoryShownUnfiltered == Len(historyItems) > 0

HistoryShown == (filters.all \/ filters.history) /\ Len(historyItems) > 0

\* {sessionsError && (<Command.Item value="error" disabled>
ErrorItemShown == sessionsError # ""

\* A click on (or Enter on) the "Search google" item.
SelectSearchGoogle ==
  /\ mounted /\ windowOpen
  /\ SearchGoogleShown
  /\ handleSearch("google")
  /\ lastEvent' = [kind |-> "select", item |-> "search-google"]
  /\ UNCHANGED <<componentVars, subVars, filters, searchValue, slotVars, inflightVars, hostVars>>

\* A click on (or Enter on) the "Navigate to" item.
SelectNavigateTo ==
  /\ mounted /\ windowOpen
  /\ NavigateToShown
  /\ handleUrlNavigation(searchValue)
  /\ lastEvent' = [kind |-> "select", item |-> "navigate-to"]
  /\ UNCHANGED <<componentVars, subVars, filters, searchValue, slotVars, inflightVars, hostVars>>

\* The tab items of a group as rendered: none when the group is not.
TabGroups == {"media", "opened"}

GroupTabs(group) ==
  IF group = "media"
    THEN (IF MediaTabsShown THEN mediaTabs ELSE <<>>)
    ELSE (IF OpenedTabsShown THEN activeTabs ELSE <<>>)

\* Item i of a tab group is selected: onSelect={() => tab.id && switchToTab(tab.id)}.
SelectTabItem(group, i) ==
  /\ mounted /\ windowOpen
  /\ i \in 1..Len(GroupTabs(group))
  /\ LET tab == GroupTabs(group)[i]
     IN  /\ IF tab.id # None /\ tab.id # Some(0)
               THEN switchToTab(tab.id[1])
               ELSE UNCHANGED callVars
         /\ lastEvent' = [kind |-> "select", item |-> "tab", id |-> tab.id]
  /\ UNCHANGED <<componentVars, subVars, filters, searchValue, slotVars, inflightVars, hostVars>>

\* The mute button of item i of Media Tabs is clicked: the click stops at the
\* button, tab.id && toggleMute(tab.id, tab.mutedInfo?.muted || false).
MuteButtonClick(i) ==
  /\ mounted /\ windowOpen
  /\ i \in 1..Len(GroupTabs("media"))
  /\ LET tab == GroupTabs("media")[i]
     IN  /\ IF tab.id # None /\ tab.id # Some(0)
               THEN toggleMute(tab.id[1], Muted(tab))
               ELSE UNCHANGED callVars
         /\ lastEvent' = [kind |-> "button", button |-> "mute", id |-> tab.id]
  /\ UNCHANGED <<componentVars, subVars, filters, searchValue, slotVars, inflightVars, hostVars>>

\* The close button of item i of a tab group is clicked: the click stops at
\* the button, tab.id && browser.tabs.remove(tab.id); the promise is dropped,
\* the request is with the host.
CloseButtonClick(group, i) ==
  /\ mounted /\ windowOpen
  /\ i \in 1..Len(GroupTabs(group))
  /\ LET tab == GroupTabs(group)[i]
     IN  /\ IF tab.id # None /\ tab.id # Some(0)
               THEN /\ Len(hostCalls) < MaxCalls
                    /\ hostCalls' = Append(hostCalls, RemoveCall(tab.id[1]))
                    /\ tasks' = Append(tasks, [op |-> "remove", tabId |-> tab.id[1]])
               ELSE UNCHANGED callVars
         /\ lastEvent' = [kind |-> "button", button |-> "close", id |-> tab.id]
  /\ UNCHANGED <<componentVars, subVars, filters, searchValue, slotVars, inflightVars, hostVars>>

\* The host's tabs without tab tabId; when it was the active one, the first
\* tab left is active.
Without(tabs, tabId) ==
  LET left == SelectSeq(tabs, LAMBDA tab : tab.id # Some(tabId))
      wasActive == \E i \in 1..Len(tabs) : tabs[i].id = Some(tabId) /\ tabs[i].active
  IN  [i \in 1..Len(left) |-> IF wasActive /\ i = 1 THEN [left[i] EXCEPT !.active = TRUE]
                                                     ELSE left[i]]

\* The host carries out the remove request i and fires onRemoved, on which
\* handleTabChange is registered.
HostTabRemoved(i) ==
  /\ mounted /\ windowOpen
  /\ i \in 1..Len(tasks)
  /\ tasks[i].op = "remove"
  /\ HostHasTab(tasks[i].tabId)
  /\ BagIn("onRemoved", listeners)
  /\ inflightOpen < MaxInFlight
  /\ inflightClosed < MaxInFlight
  /\ tasks' = RemoveAt(tasks, i)
  /\ hostTabs' = Without(hostTabs, tasks[i].tabId)
  /\ handleTabChange
  /\ lastEvent' = [kind |-> "tabEvent"]
  /\ UNCHANGED <<componentVars, subVars, filters, searchValue, openTabs, recentlyClosedTabs,
                 historyItems, bookmarkItems, inflightHistory, inflightBookmarks,
                 hostCalls, hostSessions, sessionsAvailable>>

\* What extractDomain is called on and gives for the rendered items of the
\* Recently Closed Tabs group: keywords={[..., extractDomain(tab.url || "")]}
\* and {tab.url ? extractDomain(tab.url) : ""}.
ClosedKeywords ==
  IF RecentlyClosedShown
    THEN [i \in 1..Len(recentlyClosedTabs) |->
            [url |-> recentlyClosedTabs[i].url,
             result |-> extractDomain(recentlyClosedTabs[i].url)]]
    ELSE <<>>

ClosedSubtitles ==
  IF RecentlyClosedShown
    THEN [i \in 1..Len(recentlyClosedTabs) |->
            IF recentlyClosedTabs[i].url # ""
              THEN extractDomain(recentlyClosedTabs[i].url)
              ELSE Returned("")]
    ELSE <<>>

\* The items of the groups that reopen a url, as rendered.
UrlGroups == {"closed", "bookmarks", "history"}

GroupItems(group) ==
  CASE group = "closed" -> (IF RecentlyClosedShown THEN recentlyClosedTabs ELSE <<>>)
    [] group = "bookmarks" -> (IF BookmarksShown THEN bookmarkItems ELSE <<>>)
    [] group = "history" -> (IF HistoryShown THEN historyItems ELSE <<>>)

\* The url of an item as an optional value: a TabItem's url is a string, the
\* others' is optional; the empty string is falsy like a missing url.
ItemUrl(group, item) ==
  IF group = "closed"
    THEN (IF item.url = "" THEN None ELSE Some(item.url))
    ELSE (IF item.url = Some("") THEN None ELSE item.url)

\* Item i of such a group is selected: onSelect={() => item.url && reopenTab(item.url)}.
SelectUrlItem(group, i) ==
  /\ mounted /\ windowOpen
  /\ i \in 1..Len(GroupItems(group))
  /\ LET url == ItemUrl(group, GroupItems(group)[i])
     IN  /\ IF url # None THEN reopenTab(url[1]) ELSE UNCHANGED callVars
         /\ lastEvent' = [kind |-> "select", item |-> group, index |-> i]
  /\ UNCHANGED <<componentVars, subVars, filters, searchValue, slotVars, inflightVars, hostVars>>

\* ------------------------------------------------------------- submenu

\* The keys of the keydowns the document listener of SubCommand is given.
DocumentKeys == {"o", "O", "a"}

\* SubCommand's keydown listener on the document. The main input's
\* handleKeyDown does nothing for these keys and does not stop them, so a
\* keydown in the input comes here like one anywhere else.
DocumentKeyDown(key, ctrlKey, metaKey) ==
  /\ mounted /\ windowOpen
  /\ IF key = "o" /\ (metaKey \/ ctrlKey)
       THEN /\ open' = ~open
            /\ overflowEffect' = TRUE
            /\ lastEvent' = [kind |-> "documentKeydown", key |-> key,
                             defaultPrevented |-> TRUE, propagationStopped |-> TRUE]
       ELSE /\ UNCHANGED <<open, overflowEffect>>
            /\ lastEvent' = [kind |-> "documentKeydown", key |-> key,
                             defaultPrevented |-> FALSE, propagationStopped |-> FALSE]
  /\ UNCHANGED <<componentVars, filters, searchValue, slotVars, inflightVars, callVars,
                 hostVars, overflow>>

\* setOpen(value): the effect on [open, listRef] runs again when open changed.
setOpen(value) ==
  /\ open' = value
  /\ overflowEffect' = (overflowEffect \/ value # open)

\* Popover.Trigger onClick={() => setOpen(true)}.
TriggerClick ==
  /\ mounted /\ windowOpen
  /\ setOpen(TRUE)
  /\ lastEvent' = [kind |-> "click", trigger |-> "Actions"]
  /\ UNCHANGED <<componentVars, filters, searchValue, slotVars, inflightVars, callVars,
                 hostVars, overflow>>

\* Popover.Root onOpenChange={setOpen}: the popover asks to be opened or
\* closed (Escape, a click outside).
PopoverOpenChange(value) ==
  /\ mounted /\ windowOpen
  /\ setOpen(value)
  /\ lastEvent' = [kind |-> "openChange", value |-> value]
  /\ UNCHANGED <<componentVars, filters, searchValue, slotVars, inflightVars, callVars,
                 hostVars, overflow>>

\* The "Search web" item of the submenu: onSelect={() => handleSearch("google")}.
\* The item is disabled for an empty query, for which handleSearch does
\* nothing either.
SelectSearchWeb ==
  /\ mounted /\ windowOpen
  /\ open
  /\ handleSearch("google")
  /\ lastEvent' = [kind |-> "select", item |-> "search-web"]
  /\ UNCHANGED <<componentVars, subVars, filters, searchValue, slotVars, inflightVars,
                 hostVars>>

\* The "Open URL" item of the submenu, disabled unless isUrl(selectedValue):
\* onSelect={() => handleNavigateTo(selectedValue)}.
SelectOpenUrl ==
  /\ mounted /\ windowOpen
  /\ open
  /\ isUrl(searchValue)
  /\ handleUrlNavigation(searchValue)
  /\ lastEvent' = [kind |-> "select", item |-> "open-url"]
  /\ UNCHANGED <<componentVars, subVars, filters, searchValue, slotVars, inflightVars,
                 hostVars>>

\* The effect on [open, listRef] that sets overflow when the submenu is open
\* and leaves it otherwise.
RunOverflowEffectNoRestore ==
  /\ mounted /\ windowOpen
  /\ overflowEffect
  /\ overflowEffect' = FALSE
  /\ overflow' = IF open THEN "hidden" ELSE overflow
  /\ UNCHANGED <<componentVars, filters, searchValue, slotVars, inflightVars, callVars,
                 hostVars, lastEvent, open>>

\* The effect on [open, listRef] runs after the render that follows a change
\* of open; the list element is there while the component is mounted.
RunOverflowEffect ==
  /\ mounted /\ windowOpen
  /\ overflowEffect
  /\ overflowEffect' = FALSE
  /\ overflow' = IF open THEN "hidden" ELSE ""
  /\ UNCHANGED <<componentVars, filters, searchValue, slotVars, inflightVars, callVars,
                 hostVars, lastEvent, open>>

\* ------------------------------------------------------------- specifications

\* The filter bar: its buttons and the keys the router reads as filters.
FilterKeys == {"1", "2", "3", "4", "a"}

FilterNext ==
  \/ Mount
  \/ \E filter \in FilterNames : FilterButtonClick(filter)
  \/ \E key \in FilterKeys : \E ctrlKey, metaKey, shiftKey \in BOOLEAN :
       KeyDown(key, ctrlKey, metaKey, shiftKey)

FilterSpec == Init /\ [][FilterNext]_vars

\* The query text, the Enter key and the Quick Actions; the host leaves the
\* fetches unanswered and the filter stays as it is.
KeyboardNext ==
  \/ Mount
  \/ \E key \in {"Enter", "a"} : \E ctrlKey, metaKey, shiftKey \in BOOLEAN :
       KeyDown(key, ctrlKey, metaKey, shiftKey)
  \/ \E value \in Queries : InputChange(value)
  \/ SelectSearchGoogle
  \/ SelectNavigateTo
  \/ \E i \in 1..MaxCalls : TaskResolve(i)
  \/ \E i \in 1..MaxCalls : TaskReject(i)

KeyboardSpec == Init /\ [][KeyboardNext]_vars

\* The order of the open tabs: the host's tabs carry the timestamps, and the
\* tab events start the two fetches.
TabsNext ==
  \/ Mount
  \/ \E event \in TabEvents : OnTabEvent(event)
  \/ \E lastAccessed \in Times : HostTabCreated(lastAccessed, FALSE, None)
  \/ FetchOpenTabsResolve
  \/ FetchOpenTabsReject
  \/ FetchRecentlyClosedTabsResolve
  \/ FetchRecentlyClosedTabsReject

TabsSpec == Init /\ [][TabsNext]_vars

Muting == {None, Some([muted |-> TRUE]), Some([muted |-> FALSE])}

\* The split of the open tabs into the Media Tabs and the Opened Tabs: the
\* host's tabs play sound or are muted when they come up.
OpenedNext ==
  \/ Mount
  \/ \E event \in TabEvents : OnTabEvent(event)
  \/ \E audible \in BOOLEAN : \E mutedInfo \in {None, Some([muted |-> TRUE])} :
       HostTabCreated(None, audible, mutedInfo)
  \/ FetchOpenTabsResolve
  \/ FetchOpenTabsReject
  \/ FetchRecentlyClosedTabsResolve
  \/ FetchRecentlyClosedTabsReject

OpenedSpec == Init /\ [][OpenedNext]_vars

\* The Media Tabs group under the filters: the host keeps to two tabs, which
\* start and stop playing sound and are muted and unmuted.
MediaNext ==
  \/ Mount
  \/ \E filter \in {"all", "tab", "history"} : FilterButtonClick(filter)
  \/ \E event \in TabEvents : OnTabEvent(event)
  \/ Len(hostTabs) < 2 /\ HostTabCreated(None, FALSE, None)
  \/ \E i \in 1..MaxTabs : HostAudibleChange(i)
  \/ \E i \in 1..MaxTabs : HostMutedChange(i)
  \/ FetchOpenTabsResolve
  \/ FetchOpenTabsReject
  \/ FetchRecentlyClosedTabsResolve
  \/ FetchRecentlyClosedTabsReject

MediaSpec == Init /\ [][MediaNext]_vars

\* The groups under the filters and the query: the host answers the fetches
\* started on mount, and its tabs play sound from the start.
RenderNext ==
  \/ Mount
  \/ \E filter \in FilterNames : FilterButtonClick(filter)
  \/ \E value \in {"", "test"} : InputChange(value)
  \/ HostTabCreated(None, TRUE, None)
  \/ FetchOpenTabsResolve
  \/ FetchRecentlyClosedTabsResolve
  \/ FetchRecentlyClosedTabsReject
  \/ FetchHistoryItemsResolve("")
  \/ FetchBookmarkItemsResolve("")

RenderSpec == Init /\ [][RenderNext]_vars

Next ==
  \/ Unmount
  \/ \E key \in DocumentKeys : \E ctrlKey, metaKey \in BOOLEAN :
       DocumentKeyDown(key, ctrlKey, metaKey)
  \/ TriggerClick
  \/ \E value \in BOOLEAN : PopoverOpenChange(value)
  \/ RunOverflowEffect
  \/ SelectSearchWeb
  \/ SelectOpenUrl
  \/ \E url \in DomainUrls : HostSessionClosed(url)
  \/ FilterNext
  \/ KeyboardNext
  \/ \E event \in TabEvents : OnTabEvent(event)
  \/ \E lastAccessed \in Times : \E audible \in BOOLEAN : \E mutedInfo \in Muting :
       HostTabCreated(lastAccessed, audible, mutedInfo)
  \/ \E i \in 1..MaxTabs : HostAudibleChange(i)
  \/ \E i \in 1..MaxTabs : HostMutedChange(i)
  \/ FetchOpenTabsResolve
  \/ FetchOpenTabsReject
  \/ FetchRecentlyClosedTabsResolve
  \/ FetchRecentlyClosedTabsReject
  \/ \E query \in Queries : FetchHistoryItemsResolve(query)
  \/ \E query \in Queries : FetchHistoryItemsReject(query)
  \/ \E query \in Queries : FetchBookmarkItemsResolve(query)
  \/ \E query \in Queries : FetchBookmarkItemsReject(query)
  \/ \E value \in SpacedQueries \cup NoTldQueries \cup UrlQueries : InputChange(value)
  \/ \E group \in TabGroups : \E i \in 1..MaxTabs : SelectTabItem(group, i)
  \/ \E group \in UrlGroups : \E i \in 1..MaxItems : SelectUrlItem(group, i)
  \/ \E i \in 1..MaxTabs : MuteButtonClick(i)
  \/ \E group \in TabGroups : \E i \in 1..MaxTabs : CloseButtonClick(group, i)
  \/ \E i \in 1..MaxCalls : HostTabRemoved(i)

Spec == Init /\ [][Next]_vars

\* ------------------------------------------------------------- filter claims

SpecificFilters == {"tab", "history", "bookmark"}

\* The filter state with exactly the specific flag f set.
Only(f) == [AllOnly EXCEPT !.all = FALSE, ![f] = TRUE]

\* The step is a selection of filter f: a click on its button, or its digit
\* key with Ctrl or Cmd held.
SelectFilterStep(f) ==
  \/ FilterButtonClick(f)
  \/ \E key \in DOMAIN FilterOfKey : \E ctrlKey, metaKey, shiftKey \in BOOLEAN :
       /\ FilterOfKey[key] = f
       /\ ctrlKey \/ metaKey
       /\ KeyDown(key, ctrlKey, metaKey, shiftKey)

\* C1: in every reachable state the "all" flag is set exactly when none of the
\* tab, history and bookmark flags is set.
C1_AllIffNoSpecific ==
  filters.all <=> ~(filters.tab \/ filters.history \/ filters.bookmark)

\* Two specific flags are set together, and one was then taken back by a
\* click: a specific flag is left and "all" is off.
C1_Witness ==
  /\ lastEvent.kind = "click"
  /\ lastEvent.filter = "tab"
  /\ filters = Only("history")

\* C2: from the all-only state, selecting a specific filter f gives the state
\* with only f set, and selecting f again from there gives all-only back.
C2_ToggleTwice ==
  [][\A f \in SpecificFilters :
       /\ (filters = AllOnly /\ SelectFilterStep(f)) => filters' = Only(f)
       /\ (filters = Only(f) /\ SelectFilterStep(f)) => filters' = AllOnly]_vars

\* The bookmark filter was selected by its key while it was the only one set:
\* the second toggle has brought all-only back.
C2_Witness ==
  /\ lastEvent.kind = "keydown"
  /\ lastEvent.key = "4"
  /\ lastEvent.propagationStopped
  /\ filters = AllOnly

\* C3: selecting "all" in any reachable state gives the all-only state, so
\* selecting it again changes nothing.
C3_AllSets ==
  [][SelectFilterStep("all") => filters' = AllOnly]_vars

\* The "all" button was the last thing clicked, and the state is all-only.
C3_Witness ==
  /\ lastEvent = [kind |-> "click", filter |-> "all"]
  /\ filters = AllOnly

\* ------------------------------------------------------------- tab claims

IsMedia(tab) == tab.audible \/ (tab.mutedInfo # None /\ tab.mutedInfo[1].muted)

Ids(tabs) == {tabs[i].id : i \in 1..Len(tabs)}

\* C4: in every reachable state no item of the Opened Tabs group is the active
\* tab or an audible or muted tab, and no tab is in both the Opened Tabs and
\* the Media Tabs group.
C4_OpenedTabsExclude ==
  /\ \A i \in 1..Len(activeTabs) :
       ~activeTabs[i].active /\ ~IsMedia(activeTabs[i])
  /\ Ids(activeTabs) \cap Ids(mediaTabs) = {}

\* Three open tabs were fetched: the active one plays sound, another is muted
\* without sound, and the third is the one item of Opened Tabs.
C4_Witness ==
  /\ Len(openTabs) = 3
  /\ Len(mediaTabs) = 2
  /\ \E i \in 1..MaxItems : openTabs[i].active /\ openTabs[i].audible
  /\ \E i \in 1..MaxItems : ~openTabs[i].audible /\ IsMedia(openTabs[i])
  /\ Len(activeTabs) = 1

\* C5: the Media Tabs, Opened Tabs and Recently Closed groups are rendered
\* only when the filter has all or tab, the Bookmarks group only when it has
\* all or bookmark, the History group only when it has all or history, and the
\* Quick Actions group exactly when the query is not empty, whatever the filter.
C5_GroupVisibility ==
  /\ (MediaTabsShown \/ OpenedTabsShown \/ RecentlyClosedShown)
       => (filters.all \/ filters.tab)
  /\ BookmarksShown => (filters.all \/ filters.bookmark)
  /\ HistoryShown => (filters.all \/ filters.history)
  /\ QuickActionsShown <=> searchValue # ""

\* Every slot holds items and a query is typed, with only the bookmark filter
\* on: of the groups, Bookmarks and Quick Actions alone are rendered.
C5_Witness ==
  /\ filters = Only("bookmark")
  /\ searchValue = "test"
  /\ Len(mediaTabs) > 0 /\ Len(recentlyClosedTabs) > 0 /\ sessionsError = ""
  /\ Len(historyItems) > 0
  /\ BookmarksShown /\ QuickActionsShown
  /\ ~MediaTabsShown /\ ~OpenedTabsShown /\ ~RecentlyClosedShown /\ ~HistoryShown

HostHasMedia == \E i \in 1..Len(hostTabs) : IsMedia(hostTabs[i])

\* C6 as stated: the Media Tabs group is absent while the fetched snapshot has
\* no audible or muted tab, and when a fetch of the open tabs completes the
\* group is there exactly when the host has an audible or muted tab.
C6_Original ==
  /\ []((\A i \in 1..Len(openTabs) : ~IsMedia(openTabs[i])) => ~MediaTabsShown)
  /\ [][FetchOpenTabsResolve => (MediaTabsShown' <=> HostHasMedia')]_vars

\* C6, amended: the Media Tabs group is absent while the fetched snapshot has
\* no audible or muted tab, and when a fetch of the open tabs resolves the
\* group is there exactly when the filter has all or tab and the host has an
\* audible or muted tab; so it comes up after a tab turns audible or muted and
\* goes again after the last such tab stops.
C6_MediaGroupFollowsFetch ==
  /\ []((\A i \in 1..Len(openTabs) : ~IsMedia(openTabs[i])) => ~MediaTabsShown)
  /\ [][FetchOpenTabsResolve =>
          (MediaTabsShown' <=> ((filters'.all \/ filters'.tab) /\ HostHasMedia'))]_vars

\* A tab event was the last event, every fetch it started is done, and the
\* Media Tabs group shows a tab that is muted without sound.
C6_Witness ==
  /\ lastEvent.kind = "tabEvent"
  /\ inflightOpen = 0
  /\ MediaTabsShown
  /\ \A i \in 1..Len(openTabs) : ~openTabs[i].audible

\* C7: the openTabs slot is in non-increasing order of lastAccessed, a missing
\* lastAccessed counting as 0.
C7_OpenTabsSorted ==
  \A i \in 1..Len(openTabs) : \A j \in i..Len(openTabs) :
    LET a == IF openTabs[i].lastAccessed = None THEN 0 ELSE openTabs[i].lastAccessed[1]
        b == IF openTabs[j].lastAccessed = None THEN 0 ELSE openTabs[j].lastAccessed[1]
    IN  a >= b

\* A fetch delivered three tabs that the host holds in another order: the
\* host's first tab has no lastAccessed and is last in the slot.
C7_Witness ==
  /\ Len(openTabs) = 3
  /\ Ids(openTabs) = Ids(hostTabs)
  /\ hostTabs[1].lastAccessed = None
  /\ openTabs[3].id = hostTabs[1].id
  /\ openTabs[1].lastAccessed = Some(MaxTime)
  /\ openTabs[1].id = hostTabs[3].id

\* ------------------------------------------------------------- query claims

\* The URL-shaped ones of the queries, each with the address it names.
UrlShapedQueries == {"https://example.com", "example.com"}

AddressOf(q) == "https://example.com"

\* The google search URL of each non-empty query, written out.
GoogleUrlOf(q) ==
  CASE q = "test" -> "https://www.google.com/search?q=test"
    [] q = "https://example.com" -> "https://www.google.com/search?q=https%3A%2F%2Fexample.com"
    [] q = "example.com" -> "https://www.google.com/search?q=example.com"

\* C8: Ctrl/Cmd+Enter without Shift, with a non-empty query q, makes exactly
\* one tabs.create request, at https://www.google.com/search?q=<encoded q>,
\* whether or not q is URL-shaped and never at the address q names; the popup
\* stays open until that request resolves and closes when it does.
C8_CtrlEnterSearches ==
  /\ [][\A ctrlKey, metaKey \in BOOLEAN :
          ((ctrlKey \/ metaKey) /\ searchValue # ""
            /\ KeyDown("Enter", ctrlKey, metaKey, FALSE))
          => /\ hostCalls' = Append(hostCalls,
                                    [api |-> "tabs.create", url |-> GoogleUrlOf(searchValue)])
             /\ hostCalls'[Len(hostCalls')].url \notin {searchValue, "https://" \o searchValue}
             /\ tasks' = Append(tasks, [op |-> "handleSearch"])
             /\ windowOpen']_vars
  /\ [][\A i \in 1..MaxCalls :
          (TaskResolve(i) /\ tasks[i].op = "handleSearch")
          => (~windowOpen' /\ hostCalls' = hostCalls)]_vars

\* Ctrl/Cmd+Enter was pressed on the query https://example.com: the one request
\* was the google search for it, and the popup has closed.
C8_Witness ==
  /\ lastEvent.kind = "keydown"
  /\ lastEvent.key = "Enter" /\ lastEvent.ctrlOrMeta /\ ~lastEvent.shiftKey
  /\ searchValue = "https://example.com"
  /\ hostCalls = <<[api |-> "tabs.create",
                    url |-> "https://www.google.com/search?q=https%3A%2F%2Fexample.com"]>>
  /\ ~windowOpen

\* C9: Ctrl/Cmd+Shift+Enter with a URL-shaped query makes exactly one
\* tabs.create request, at the address the query names, and none at a search
\* URL.
C9_CtrlShiftEnterNavigates ==
  [][\A ctrlKey, metaKey \in BOOLEAN :
       ((ctrlKey \/ metaKey) /\ searchValue \in UrlShapedQueries
         /\ KeyDown("Enter", ctrlKey, metaKey, TRUE))
       => /\ hostCalls' = Append(hostCalls,
                                 [api |-> "tabs.create", url |-> AddressOf(searchValue)])
          /\ hostCalls'[Len(hostCalls')].url # GoogleUrlOf(searchValue)
          /\ tasks' = Append(tasks, [op |-> "handleUrlNavigation"])]_vars

\* Ctrl/Cmd+Shift+Enter was pressed on the query example.com: the one request
\* was for https://example.com.
C9_Witness ==
  /\ lastEvent.kind = "keydown"
  /\ lastEvent.key = "Enter" /\ lastEvent.ctrlOrMeta /\ lastEvent.shiftKey
  /\ searchValue = "example.com"
  /\ hostCalls = <<[api |-> "tabs.create", url |-> "https://example.com"]>>

\* C10: in every reachable state, an empty query shows neither "Search google"
\* nor "Navigate to", a non-empty query that is not URL-shaped shows "Search
\* google" alone, and a URL-shaped query shows both.
C10_QuickActionsFollowQuery ==
  /\ searchValue = "" => (~SearchGoogleShown /\ ~NavigateToShown)
  /\ (searchValue # "" /\ searchValue \notin UrlShapedQueries)
       => (SearchGoogleShown /\ ~NavigateToShown)
  /\ searchValue \in UrlShapedQueries => (SearchGoogleShown /\ NavigateToShown)

\* The query was typed and then cleared: both entries are gone again.
C10_Witness ==
  /\ lastEvent = [kind |-> "input", value |-> ""]
  /\ searchValue = ""
  /\ ~SearchGoogleShown /\ ~NavigateToShown

\* ------------------------------------------------------------- URL claims

\* The ambiguous queries at the Quick Actions and the Enter key; the host
\* leaves the fetches unanswered.
AmbiguousNext ==
  \/ Mount
  \/ \E ctrlKey, metaKey, shiftKey \in BOOLEAN : KeyDown("Enter", ctrlKey, metaKey, shiftKey)
  \/ \E value \in {""} \cup SpacedQueries \cup NoTldQueries : InputChange(value)
  \/ SelectSearchGoogle
  \/ SelectNavigateTo
  \/ \E i \in 1..MaxCalls : TaskResolve(i)
  \/ \E i \in 1..MaxCalls : TaskReject(i)

AmbiguousSpec == Init /\ [][AmbiguousNext]_vars

Ambiguous(q) == Contains(q, " ") \/ q \in NoTldQueries

\* C11: for a query that contains a space or has no valid-looking TLD,
\* "Navigate to" is never shown, and Ctrl/Cmd+Shift+Enter requests a tab at the
\* google search URL, not at the query.
C11_AmbiguousIsSearch ==
  /\ [](Ambiguous(searchValue) => ~NavigateToShown)
  /\ [][\A ctrlKey, metaKey \in BOOLEAN :
          ((ctrlKey \/ metaKey) /\ Ambiguous(searchValue)
            /\ KeyDown("Enter", ctrlKey, metaKey, TRUE))
          => /\ Len(hostCalls') = Len(hostCalls) + 1
             /\ StartsWith(hostCalls'[Len(hostCalls')].url,
                           "https://www.google.com/search?q=")]_vars

\* Direct navigation, by the key and by the "Navigate to" item, on queries
\* isUrl accepts.
NavigateNext ==
  \/ Mount
  \/ \E ctrlKey, metaKey, shiftKey \in BOOLEAN : KeyDown("Enter", ctrlKey, metaKey, shiftKey)
  \/ \E value \in {""} \cup UrlQueries : InputChange(value)
  \/ SelectSearchGoogle
  \/ SelectNavigateTo
  \/ \E i \in 1..MaxCalls : TaskResolve(i)
  \/ \E i \in 1..MaxCalls : TaskReject(i)

NavigateSpec == Init /\ [][NavigateNext]_vars

\* The step is a direct navigation: the "Navigate to" item is selected, or
\* Ctrl/Cmd+Shift+Enter is pressed on a query isUrl accepts.
DirectNavigateStep ==
  \/ SelectNavigateTo
  \/ \E ctrlKey, metaKey \in BOOLEAN :
       (ctrlKey \/ metaKey) /\ isUrl(searchValue) /\ KeyDown("Enter", ctrlKey, metaKey, TRUE)

\* How often sub occurs in s.
Occurrences(s, sub) ==
  Cardinality({i \in 1..(Len(s) - Len(sub) + 1) : SubSeq(s, i, i + Len(sub) - 1) = sub})

HasScheme(s) == SubSeq(s, 1, 7) = "http://" \/ SubSeq(s, 1, 8) = "https://"

\* C12: a direct navigation requests one tab, at the query itself when the
\* query starts with http:// or https:// and at "https://" + query otherwise,
\* so the requested URL starts with a scheme and holds no second one; the popup
\* closes when the request resolves.
C12_DirectNavigateUrl ==
  /\ [][DirectNavigateStep =>
          /\ Len(hostCalls') = Len(hostCalls) + 1
          /\ SubSeq(hostCalls', 1, Len(hostCalls)) = hostCalls
          /\ LET created == hostCalls'[Len(hostCalls')]
             IN  /\ created.api = "tabs.create"
                 /\ HasScheme(searchValue) => created.url = searchValue
                 /\ ~HasScheme(searchValue) => created.url = "https://" \o searchValue
                 /\ HasScheme(created.url)
                 /\ Occurrences(created.url, "://") = 1
          /\ windowOpen']_vars
  /\ [][\A i \in 1..MaxCalls :
          (TaskResolve(i) /\ tasks[i].op = "handleUrlNavigation")
          => (~windowOpen' /\ hostCalls' = hostCalls)]_vars

\* "Navigate to" was selected on http://example.com: the one request went to
\* the query as typed, and the popup has closed.
C12_Witness ==
  /\ lastEvent = [kind |-> "select", item |-> "navigate-to"]
  /\ searchValue = "http://example.com"
  /\ hostCalls = <<[api |-> "tabs.create", url |-> "http://example.com"]>>
  /\ ~windowOpen

\* ------------------------------------------------------------- action claims

\* Switching to a tab: the host's tabs are fetched and their items selected.
SwitchNext ==
  \/ Mount
  \/ \E audible \in BOOLEAN : HostTabCreated(None, audible, None)
  \/ FetchOpenTabsResolve
  \/ \E group \in TabGroups : \E i \in 1..MaxTabs : SelectTabItem(group, i)
  \/ \E i \in 1..MaxCalls : TaskResolve(i)
  \/ \E i \in 1..MaxCalls : TaskReject(i)

SwitchSpec == Init /\ [][SwitchNext]_vars

IsActivate(call) == call.api = "tabs.update" /\ "active" \in DOMAIN call /\ call.active

IsFocus(call) ==
  call.api = "windows.update" /\ call.focused /\ call.windowId = HostWindow.id[1]

\* The calls of kind Is among the first k calls received.
CallsUpTo(k, Is(_)) == Cardinality({j \in 1..k : Is(hostCalls[j])})

\* C13: selecting the item of a tab in Media Tabs or Opened Tabs requests the
\* activation of that tab with the popup open; the window of the tabs is
\* focused only after an activation that no focusing has followed yet, and the
\* popup closes only after the focusing.
C13_SwitchOrder ==
  /\ [][\A group \in TabGroups : \A i \in 1..MaxTabs :
          SelectTabItem(group, i)
          => /\ hostCalls' = Append(hostCalls,
                                    [api |-> "tabs.update",
                                     tabId |-> GroupTabs(group)[i].id[1],
                                     active |-> TRUE])
             /\ windowOpen']_vars
  /\ [](\A k \in 1..Len(hostCalls) :
          IsFocus(hostCalls[k]) => CallsUpTo(k, IsActivate) >= CallsUpTo(k, IsFocus))
  /\ [](\A k \in 1..Len(hostCalls) : hostCalls[k].api = "windows.update" => IsFocus(hostCalls[k]))
  /\ [](~windowOpen => \E k \in 1..Len(hostCalls) : IsFocus(hostCalls[k]))

\* The item of tab 2 was selected in Opened Tabs: the host was asked to
\* activate tab 2, then for the window, then to focus it, and the popup has
\* closed.
C13_Witness ==
  /\ lastEvent = [kind |-> "select", item |-> "tab", id |-> Some(2)]
  /\ hostCalls = <<[api |-> "tabs.update", tabId |-> 2, active |-> TRUE],
                   [api |-> "windows.getCurrent"],
                   [api |-> "windows.update", windowId |-> 1, focused |-> TRUE]>>
  /\ ~windowOpen

\* Reopening a url: the closed tabs, the bookmarks and the history are
\* fetched and their items selected.
ReopenNext ==
  \/ Mount
  \/ FetchRecentlyClosedTabsResolve
  \/ FetchHistoryItemsResolve("")
  \/ FetchBookmarkItemsResolve("")
  \/ \E group \in UrlGroups : \E i \in 1..MaxItems : SelectUrlItem(group, i)
  \/ \E i \in 1..MaxCalls : TaskResolve(i)
  \/ \E i \in 1..MaxCalls : TaskReject(i)

ReopenSpec == Init /\ [][ReopenNext]_vars

\* C14: selecting an item of Recently Closed Tabs, Bookmarks or History that
\* has a url requests exactly one tab at that url with the popup open, and the
\* popup closes when the request resolves; no call but tabs.create is made.
C14_ReopenCreatesOneTab ==
  /\ [][\A group \in UrlGroups : \A i \in 1..MaxItems :
          (SelectUrlItem(group, i) /\ ItemUrl(group, GroupItems(group)[i]) # None)
          => /\ hostCalls' = Append(hostCalls,
                                    [api |-> "tabs.create",
                                     url |-> ItemUrl(group, GroupItems(group)[i])[1]])
             /\ windowOpen']_vars
  /\ [][\A i \in 1..MaxCalls :
          (TaskResolve(i) /\ tasks[i].op = "reopenTab")
          => (~windowOpen' /\ hostCalls' = hostCalls)]_vars
  /\ [](\A k \in 1..Len(hostCalls) : hostCalls[k].api = "tabs.create")

\* The second history item was selected: the one request was a tab at its url,
\* and the popup has closed.
C14_Witness ==
  /\ lastEvent = [kind |-> "select", item |-> "history", index |-> 2]
  /\ hostCalls = <<[api |-> "tabs.create", url |-> "https://test.org/"]>>
  /\ ~windowOpen

\* Muting: the host's two tabs play sound or are muted when they come up,
\* are fetched, and their mute buttons clicked.
MuteNext ==
  \/ Mount
  \/ \E audible \in BOOLEAN : \E mutedInfo \in Muting :
       Len(hostTabs) < 2 /\ HostTabCreated(None, audible, mutedInfo)
  \/ FetchOpenTabsResolve
  \/ \E i \in 1..MaxTabs : MuteButtonClick(i)
  \/ \E i \in 1..MaxCalls : TaskResolve(i)
  \/ \E i \in 1..MaxCalls : TaskReject(i)

MuteSpec == Init /\ [][MuteNext]_vars

\* The muted flag of a tab of the snapshot, a missing mutedInfo counting as
\* not muted.
SnapshotMuted(tab) == IF tab.mutedInfo = None THEN FALSE ELSE tab.mutedInfo[1].muted

\* C15: a click on the mute button of a Media Tabs item makes one tabs.update
\* call for that tab with muted the negation of the snapshot's flag, starts no
\* fetch yet and leaves the popup open; when the call resolves one fetch of the
\* open tabs is started; the popup is never closed and no tab is activated.
C15_ToggleMute ==
  /\ [][\A i \in 1..MaxTabs :
          MuteButtonClick(i)
          => /\ hostCalls' = Append(hostCalls,
                                    [api |-> "tabs.update",
                                     tabId |-> mediaTabs[i].id[1],
                                     muted |-> ~SnapshotMuted(mediaTabs[i])])
             /\ inflightOpen' = inflightOpen
             /\ windowOpen']_vars
  /\ [][\A i \in 1..MaxCalls :
          (TaskResolve(i) /\ tasks[i].op = "toggleMute")
          => /\ inflightOpen' = inflightOpen + 1
             /\ hostCalls' = hostCalls
             /\ windowOpen']_vars
  /\ [](windowOpen /\ \A k \in 1..Len(hostCalls) : "muted" \in DOMAIN hostCalls[k])

\* The mute button of tab 1 was clicked while the snapshot had it unmuted: the
\* one call asked for muted, and the fetch that followed shows the tab muted.
C15_Witness ==
  /\ lastEvent = [kind |-> "button", button |-> "mute", id |-> Some(1)]
  /\ hostCalls = <<[api |-> "tabs.update", tabId |-> 1, muted |-> TRUE]>>
  /\ tasks = <<>>
  /\ inflightOpen = 0
  /\ \E i \in 1..Len(openTabs) : openTabs[i].id = Some(1) /\ SnapshotMuted(openTabs[i])

\* Closing tabs: the host's two tabs are fetched, their close buttons
\* clicked, and the host removes them and answers every query.
CloseNext ==
  \/ Mount
  \/ \E audible \in BOOLEAN : Len(hostTabs) < 2 /\ HostTabCreated(None, audible, None)
  \/ FetchOpenTabsResolve
  \/ FetchRecentlyClosedTabsResolve
  \/ \E group \in TabGroups : \E i \in 1..MaxTabs : CloseButtonClick(group, i)
  \/ \E i \in 1..MaxCalls : HostTabRemoved(i)

\* The host answers a pending browser.tabs.query in the end.
CloseSpec == Init /\ [][CloseNext]_vars /\ WF_vars(FetchOpenTabsResolve)

\* The host has carried out a requested removal of tab id and notified the
\* popup.
RemovedAndNotified(id) ==
  /\ \E k \in 1..Len(hostCalls) : hostCalls[k] = [api |-> "tabs.remove", tabId |-> id]
  /\ \A i \in 1..Len(tasks) : tasks[i] # [op |-> "remove", tabId |-> id]
  /\ \A i \in 1..Len(hostTabs) : hostTabs[i].id # Some(id)

Displayed(id) ==
  \E group \in TabGroups : \E i \in 1..Len(GroupTabs(group)) : GroupTabs(group)[i].id = Some(id)

FailNext ==
  \/ Mount
  \/ Len(hostTabs) < 1 /\ HostTabCreated(None, FALSE, None)
  \/ \E event \in TabEvents : OnTabEvent(event)
  \/ FetchOpenTabsResolve
  \/ FetchOpenTabsReject
  \/ FetchRecentlyClosedTabsResolve
  \/ FetchRecentlyClosedTabsReject
  \/ FetchHistoryItemsResolve("")
  \/ FetchHistoryItemsReject("")
  \/ FetchBookmarkItemsResolve("")
  \/ FetchBookmarkItemsReject("")

FailSpec == Init /\ [][FailNext]_vars

\* C17: when the host call of a fetch raises, the slot of that fetch is empty
\* afterwards, for each of the four fetches.
C17_FetchFailureResets ==
  /\ [][FetchOpenTabsReject => openTabs' = <<>>]_vars
  /\ [][FetchRecentlyClosedTabsReject => recentlyClosedTabs' = <<>>]_vars
  /\ [][(\E query \in Queries : FetchHistoryItemsReject(query)) => historyItems' = <<>>]_vars
  /\ [][(\E query \in Queries : FetchBookmarkItemsReject(query)) => bookmarkItems' = <<>>]_vars

\* C18: when browser.sessions is missing, fetchRecentlyClosedTabs makes no
\* host call and records a non-empty error message; and in every state with a
\* non-empty error message the Recently Closed Tabs group is not rendered and
\* the error item is.
C18_SessionsUnavailable ==
  /\ (mounted /\ ~sessionsAvailable)
       => (sessionsError # "" /\ inflightClosed = 0 /\ recentlyClosedTabs = <<>>)
  /\ sessionsError # "" => (~RecentlyClosedShown /\ ErrorItemShown)

\* browser.sessions is missing and a tab event ran the fetch again: the error
\* message is that of the missing capability, its item is rendered and the
\* group is not.
C18_Witness ==
  /\ ~sessionsAvailable
  /\ lastEvent.kind = "tabEvent"
  /\ sessionsError
       = "Cannot access recently closed tabs. Please ensure necessary permissions are granted."
  /\ ErrorItemShown /\ ~RecentlyClosedShown
  /\ filters.all

\* ------------------------------------------------------------- domain claims

\* The Recently Closed Tabs group over the urls closed tabs can have.
DomainNext ==
  \/ Mount
  \/ \E url \in DomainUrls : HostSessionClosed(url)
  \/ OnTabEvent("onRemoved")
  \/ FetchOpenTabsResolve
  \/ FetchRecentlyClosedTabsResolve

DomainSpec == Init /\ [][DomainNext]_vars

\* C19: extractDomain returns a value and does not raise, for every url it is
\* called on; and its value is the url itself when new URL throws on the url.
C19_ExtractDomainTotal ==
  /\ \A i \in 1..Len(ClosedKeywords) :
       /\ ~ClosedKeywords[i].result.raised
       /\ ~URLParse(ClosedKeywords[i].url).ok
            => ClosedKeywords[i].result.value = ClosedKeywords[i].url
  /\ \A i \in 1..Len(ClosedSubtitles) : ~ClosedSubtitles[i].raised

\* A closed tab whose url is a bare host name, which new URL throws on, is
\* rendered with that url as its domain.
C19_Witness ==
  \E i \in 1..Len(ClosedKeywords) :
    /\ ClosedKeywords[i].url = "example.com"
    /\ ~URLParse("example.com").ok
    /\ ClosedSubtitles[i] = Returned("example.com")

\* ------------------------------------------------------------- key claims

\* C20: a keydown of "1".."4" changes the filters only when Ctrl or Cmd is held
\* and Shift is not; and when it changes them, the event's default action and
\* its propagation are both suppressed.
C20_DigitKeys ==
  [][\A key \in DOMAIN FilterOfKey : \A ctrlKey, metaKey, shiftKey \in BOOLEAN :
       (KeyDown(key, ctrlKey, metaKey, shiftKey) /\ filters' # filters)
         => /\ ctrlKey \/ metaKey
            /\ ~shiftKey
            /\ lastEvent'.defaultPrevented
            /\ lastEvent'.propagationStopped]_vars

\* ------------------------------------------------------------- lifecycle claims

\* The component over mount and unmount cycles, with the tab fetches.
CycleNext ==
  \/ Mount
  \/ Unmount
  \/ Len(hostTabs) < 2 /\ \E lastAccessed \in Times : HostTabCreated(lastAccessed, FALSE, None)
  \/ \E event \in TabEvents : OnTabEvent(event)
  \/ FetchOpenTabsResolve
  \/ FetchRecentlyClosedTabsResolve

CycleSpec == Init /\ [][CycleNext]_vars

\* C21: while the component is mounted one handler is registered on each of
\* the three tab events, and none is registered while it is not mounted, over
\* every number of mounts and unmounts.
C21_ListenersScoped ==
  /\ mounted => (listeners = SetToBag(TabEvents) /\ BagCardinality(listeners) = 3)
  /\ ~mounted => BagCardinality(listeners) = 0

\* The component was mounted, the host window got a tab meanwhile, and the
\* component has been unmounted: no handler is registered.
C21_Witness ==
  /\ ~mounted
  /\ lastEvent.kind = "unmount"
  /\ hostTabs # <<>>
  /\ BagCardinality(listeners) = 0

\* ------------------------------------------------------------- search claims

\* The texts typed in the search claims: none, one that matches entries of the
\* host's history and bookmarks, one that matches others.
TypedQueries == {"", "test", "example"}

\* The main input and the two fetches of the searchValue effect.
QueryNext ==
  \/ Mount
  \/ \E value \in TypedQueries : InputChange(value)
  \/ \E query \in TypedQueries : FetchHistoryItemsResolve(query)
  \/ \E query \in TypedQueries : FetchBookmarkItemsResolve(query)
  \/ \E query \in TypedQueries : FetchBookmarkItemsReject(query)

QuerySpec == Init /\ [][QueryNext]_vars

HasUrl(item) == item.url # None /\ item.url # Some("")

\* C22: a bookmark fetch that completes stores the host's recent bookmarks
\* when its query is empty and the host's search for its query otherwise,
\* without the entries that have no url; and every entry of the bookmark slot
\* has a url.
C22_BookmarkSlot ==
  /\ [][\A query \in TypedQueries :
          FetchBookmarkItemsResolve(query)
            => bookmarkItems' = SelectSeq(IF query = ""
                                            THEN BookmarkRecent
                                            ELSE BookmarkSearch(query), HasUrl)]_vars
  /\ [](\A i \in 1..Len(bookmarkItems) : HasUrl(bookmarkItems[i]))

\* The search for "test" has been stored: the host's answer holds a folder,
\* which is not in the slot, and a bookmark, which is.
C22_Witness ==
  /\ searchValue = "test"
  /\ inflightBookmarks = EmptyBag
  /\ Len(bookmarkItems) = 1
  /\ bookmarkItems[1].id = "b3"
  /\ \E i \in 1..Len(BookmarkSearch("test")) : ~HasUrl(BookmarkSearch("test")[i])

\* The main input with all four fetches, none of which fails.
StaleNext ==
  \/ Mount
  \/ \E value \in TypedQueries \ {""} : InputChange(value)
  \/ \E query \in TypedQueries : FetchHistoryItemsResolve(query)
  \/ \E query \in TypedQueries : FetchBookmarkItemsResolve(query)
  \/ FetchOpenTabsResolve
  \/ FetchRecentlyClosedTabsResolve

StaleSpec == Init /\ [][StaleNext]_vars

NothingInFlight ==
  /\ inflightOpen = 0
  /\ inflightClosed = 0
  /\ inflightHistory = EmptyBag
  /\ inflightBookmarks = EmptyBag

\* C23: a change of the query gives up no fetch in flight (each stays in
\* flight until the host answers it), and whatever a fetch stores is the host's
\* answer to the query it was started with, whatever the query is by then.
C23_NoCancellation ==
  /\ [][\A value \in TypedQueries :
          InputChange(value)
            => \A query \in TypedQueries :
                 /\ CopiesIn(query, inflightHistory') >= CopiesIn(query, inflightHistory)
                 /\ CopiesIn(query, inflightBookmarks') >= CopiesIn(query, inflightBookmarks)]_vars
  /\ [][\A query \in TypedQueries :
          FetchHistoryItemsResolve(query) => historyItems' = HistorySearch(query)]_vars

\* Every fetch has completed, the query is "example", and the history slot
\* holds the host's answer for "test", which is not its answer for "example".
C23_Witness ==
  /\ NothingInFlight
  /\ searchValue = "example"
  /\ historyItems = HistorySearch("test")
  /\ HistorySearch("test") # HistorySearch("example")

\* C24: at most one fetch per slot is in flight at any time.
C24_OneFetchPerSlot ==
  /\ inflightOpen <= 1
  /\ inflightClosed <= 1
  /\ BagCardinality(inflightHistory) <= 1
  /\ BagCardinality(inflightBookmarks) <= 1

\* ------------------------------------------------------------- frame claims

\* The four fetches over mounts, with a filter button and the main input. The
\* host window gets its tab after the first user event and while no fetch is
\* in flight, so that a later mount finds it; the fetches started on mount are
\* answered, later ones may fail.
FrameNext ==
  \/ Mount
  \/ Unmount
  \/ /\ lastEvent.kind # "mount"
     /\ NothingInFlight
     /\ Len(hostTabs) < 1
     /\ HostTabCreated(Some(1), FALSE, None)
  \/ FilterButtonClick("history")
  \/ /\ BagCardinality(inflightHistory) < MaxInFlight
     /\ \E value \in {"", "test"} : InputChange(value)
  \/ FetchOpenTabsResolve
  \/ FetchRecentlyClosedTabsResolve
  \/ \E query \in {"", "test"} : FetchHistoryItemsResolve(query)
  \/ \E query \in {"", "test"} : FetchBookmarkItemsResolve(query)
  \/ lastEvent.kind # "mount" /\ FetchOpenTabsReject
  \/ lastEvent.kind # "mount" /\ FetchRecentlyClosedTabsReject
  \/ lastEvent.kind # "mount" /\ \E query \in {"", "test"} : FetchHistoryItemsReject(query)
  \/ lastEvent.kind # "mount" /\ \E query \in {"", "test"} : FetchBookmarkItemsReject(query)

FrameSpec == Init /\ [][FrameNext]_vars

OpenCompletes == FetchOpenTabsResolve \/ FetchOpenTabsReject

ClosedCompletes == FetchRecentlyClosedTabsResolve \/ FetchRecentlyClosedTabsReject

HistoryCompletes ==
  \E query \in TypedQueries : FetchHistoryItemsResolve(query) \/ FetchHistoryItemsReject(query)

BookmarksComplete ==
  \E query \in TypedQueries : FetchBookmarkItemsResolve(query) \/ FetchBookmarkItemsReject(query)

SubNext ==
  \/ Mount
  \/ Unmount
  \/ \E value \in {"", "test"} : InputChange(value)
  \/ \E key \in DocumentKeys : \E ctrlKey, metaKey \in BOOLEAN :
       DocumentKeyDown(key, ctrlKey, metaKey)
  \/ TriggerClick
  \/ \E value \in BOOLEAN : PopoverOpenChange(value)
  \/ RunOverflowEffect

SubSpec == Init /\ [][SubNext]_vars

\* C26: a keydown of "o" with Ctrl or Cmd flips the submenu; and once the
\* effect for the last change of the submenu has run, the overflow of the
\* main list is "hidden" if the submenu is open and "" if it is closed.
C26_SubmenuOverflow ==
  /\ [][\A ctrlKey, metaKey \in BOOLEAN :
          ((ctrlKey \/ metaKey) /\ DocumentKeyDown("o", ctrlKey, metaKey))
            => open' = ~open]_vars
  /\ []((mounted /\ ~overflowEffect) => overflow = (IF open THEN "hidden" ELSE ""))

\* The popover has asked for the submenu to be closed, the effect has run
\* since, and the overflow of the list is the default one.
C26_Witness ==
  /\ lastEvent.kind = "openChange"
  /\ ~open
  /\ ~overflowEffect
  /\ overflow = ""
  /\ searchValue = "test"

\* ------------------------------------------------------------- filter frame claims

\* The filter buttons and a digit key beside the main input and the fetches.
FilterFrameNext ==
  \/ Mount
  \/ \E filter \in FilterNames : FilterButtonClick(filter)
  \/ KeyDown("3", TRUE, FALSE, FALSE)
  \/ InputChange("test")
  \/ FetchRecentlyClosedTabsResolve
  \/ \E query \in {"", "test"} : FetchHistoryItemsResolve(query)
  \/ \E query \in {"", "test"} : FetchBookmarkItemsResolve(query)

FilterFrameSpec == Init /\ [][FilterFrameNext]_vars

\* C27: the selection of a specific filter flips its flag and leaves the
\* flags of the other two specific filters as they are; and a step that
\* changes the filters changes neither the query, nor a data slot or the
\* sessions error, nor the fetches in flight, and makes no host call.
C27_FilterFrame ==
  /\ [][\A f \in SpecificFilters :
          SelectFilterStep(f)
            => /\ filters'[f] = ~filters[f]
               /\ \A g \in SpecificFilters \ {f} : filters'[g] = filters[g]]_vars
  /\ [][filters' # filters
          => UNCHANGED <<searchValue, slotVars, inflightVars, callVars, hostVars>>]_vars

\* The three specific filters are set at once, with a query typed and the
\* data slots filled.
C27_Witness ==
  /\ filters = [all |-> FALSE, tab |-> TRUE, history |-> TRUE, bookmark |-> TRUE]
  /\ searchValue = "test"
  /\ historyItems # <<>>
  /\ bookmarkItems # <<>>
  /\ recentlyClosedTabs # <<>>

\* ------------------------------------------------------------- fallback claims

\* The Enter key and the items that search or navigate, in the main list and
\* in the submenu, with the query empty, a word, or a host name.
FallbackNext ==
  \/ Mount
  \/ \E value \in {"", "test", "example.com"} : InputChange(value)
  \/ \E ctrlKey, metaKey, shiftKey \in BOOLEAN : KeyDown("Enter", ctrlKey, metaKey, shiftKey)
  \/ TriggerClick
  \/ SelectSearchWeb
  \/ SelectOpenUrl
  \/ \E i \in 1..MaxCalls : TaskResolve(i)

FallbackSpec == Init /\ [][FallbackNext]_vars

EnterStep(shiftKey) ==
  \E ctrlKey, metaKey \in BOOLEAN :
    /\ ctrlKey \/ metaKey
    /\ KeyDown("Enter", ctrlKey, metaKey, shiftKey)

\* C28: with an empty query, Enter with Ctrl or Cmd (Shift held or not) and
\* the "Search web" item make no host call, suspend no handler and leave the
\* popup open; with a query that is not empty and that isUrl rejects, Enter
\* with Ctrl or Cmd and Shift opens the web search for the query and no other
\* tab.
C28_EmptyAndFallback ==
  /\ [][(searchValue = "" /\ (EnterStep(TRUE) \/ EnterStep(FALSE) \/ SelectSearchWeb))
          => UNCHANGED <<hostCalls, tasks, windowOpen>>]_vars
  /\ [][(searchValue # "" /\ ~isUrl(searchValue) /\ EnterStep(TRUE))
          => hostCalls' = Append(hostCalls, CreateCall(GoogleUrlOf(searchValue)))]_vars
  /\ []((windowOpen = FALSE) => hostCalls # <<>>)

\* The query is a word, Enter was pressed with Ctrl and Shift, and the host was
\* asked for the web search.
C28_Witness ==
  /\ searchValue = "test"
  /\ lastEvent.kind = "keydown"
  /\ lastEvent.shiftKey
  /\ hostCalls = <<CreateCall("https://www.google.com/search?q=test")>>

\* ------------------------------------------------------------- rejection claims

\* The four actions that end with window.close(), their host calls answered
\* or rejected.
RejectNext ==
  \/ Mount
  \/ Len(hostTabs) < 2 /\ HostTabCreated(None, FALSE, None)
  \/ FetchOpenTabsResolve
  \/ FetchRecentlyClosedTabsResolve
  \/ InputChange("example.com")
  \/ \E i \in 1..MaxTabs : SelectTabItem("opened", i)
  \/ \E i \in 1..MaxItems : SelectUrlItem("closed", i)
  \/ SelectSearchGoogle
  \/ SelectNavigateTo
  \/ \E i \in 1..MaxCalls : TaskResolve(i)
  \/ \E i \in 1..MaxCalls : TaskReject(i)

RejectSpec == Init /\ [][RejectNext]_vars

\* The task is at the last await of its handler: window.close() comes next.
AtLastAwait(task) ==
  \/ task.op \in {"handleSearch", "handleUrlNavigation", "reopenTab"}
  \/ task.op = "switchToTab" /\ task.pc = "focus"

\* C29: when a host call awaited by switchToTab, reopenTab, handleSearch or
\* handleUrlNavigation rejects, the handler is over: it makes no further host
\* call, the popup stays open, and the filters, the query and the data slots
\* are unchanged; and the popup closes only when the last host call of such a
\* handler is answered.
C29_RejectedAction ==
  /\ [][\A i \in 1..MaxCalls :
          TaskReject(i)
            => /\ tasks' = RemoveAt(tasks, i)
               /\ UNCHANGED <<windowOpen, hostCalls, filters, searchValue, slotVars>>]_vars
  /\ [][(windowOpen /\ ~windowOpen')
          => \E i \in 1..Len(tasks) : TaskResolve(i) /\ AtLastAwait(tasks[i])]_vars

\* A switch to tab 2 was started, the tab was activated, and the call for the
\* current window was rejected: the handler is gone, the window was not
\* focused and the popup is open.
C29_Witness ==
  /\ hostCalls = <<UpdateActiveCall(2), GetCurrentCall>>
  /\ tasks = <<>>
  /\ windowOpen
  /\ openTabs # <<>>

\* ------------------------------------------------------------- recovery claims

\* The recently closed tabs over tab events, their fetches answered or
\* rejected; the host records another closed tab while the error is shown.
RecoverNext ==
  \/ Mount
  \/ \E event \in TabEvents : OnTabEvent(event)
  \/ sessionsError # "" /\ HostSessionClosed("https://example.com/")
  \/ \E filter \in {"all", "history"} : FilterButtonClick(filter)
  \/ FetchOpenTabsResolve
  \/ FetchRecentlyClosedTabsResolve
  \/ FetchRecentlyClosedTabsReject

RecoverSpec == Init /\ [][RecoverNext]_vars

\* C30: a recently-closed fetch that succeeds clears the sessions error and
\* stores the closed tabs of the host, so that the group is rendered under
\* the all and tab filters; one that fails sets the error and empties the
\* slot; and the error changes at no other step, but where the fetch finds
\* browser.sessions missing.
C30_ErrorNotSticky ==
  /\ [][FetchRecentlyClosedTabsResolve
          => /\ sessionsError' = ""
             /\ Len(recentlyClosedTabs') > 0
             /\ (filters.all \/ filters.tab) => RecentlyClosedShown']_vars
  /\ [][FetchRecentlyClosedTabsReject
          => (sessionsError' # "" /\ recentlyClosedTabs' = <<>> /\ ~RecentlyClosedShown')]_vars
  /\ [][sessionsError' # sessionsError
          => \/ FetchRecentlyClosedTabsResolve
             \/ FetchRecentlyClosedTabsReject
             \/ ~sessionsAvailable /\ sessionsError' = NoSessionsError]_vars

\* The slot holds the tab the host closed while the error was shown: a fetch
\* has succeeded after the failed one, the error is gone and the group is
\* rendered.
C30_Witness ==
  /\ Len(recentlyClosedTabs) = 2
  /\ sessionsError = ""
  /\ RecentlyClosedShown

====
